---- MODULE Spec2Model ----
(***************************************************************************)
(* A model of the generation engine of typegraphql-prisma:                 *)
(*   - the type renderers of src/generator/type-class.ts                   *)
(*     (generateInputTypeText, generateInputTypeClassFromType,             *)
(*      generateOutputTypeClassFromType), as operators over DMMF types;    *)
(*   - the run of CodeGenerator.generate (unnamed/part_002) with the       *)
(*     input block generator and the worker-parallel emission stage.       *)
(* Generated text is modelled line by line: every line the renderer pushes *)
(* is one record of the sequence, blank lines included.                    *)
(***************************************************************************)
EXTENDS Integers, Sequences, FiniteSets, TLC

VARIABLES
    inputType,        \* the DMMF.InputType handed to the input renderers
    outputType,       \* the DMMF.OutputType handed to the output renderer
    options,          \* the GeneratorOptions handed to the renderers
    textFile,         \* lines returned by generateInputTypeText
    inputClassFile,   \* source file built by generateInputTypeClassFromType
    outputClassFile,  \* source file built by generateOutputTypeClassFromType
    pc,               \* where CodeGenerator.generate stands
    baseOptions,      \* the options generate() was called with
    dmmf,             \* the input types of the schema the Document is built from
    cpus,             \* os.cpus().length
    genOptions,       \* the options resolved at the start of generate()
    blocks,           \* per block generator: "pending" or "reported"
    staged,           \* the source files created in the two projects, in order
    directWrittenFilePaths,  \* the paths block generators wrote themselves
    disk,             \* the output tree: a set of <<path, content>>
    workers,          \* the emission workers, transpile workers first
    formatResult,     \* "none", "ok" or "failed": how the formatter ended
    events,           \* log(...) messages, metrics and callbacks of the end of the run
    error,            \* the error generate() rejected with, with message NONE while there is none
    dirs,             \* the directories made with mkdir
    config,           \* options.generator.config of the cli, NoConfig without the cli
    console           \* what console.log printed

renderVars ==
    <<inputType, outputType, options, textFile, inputClassFile, outputClassFile>>

runVars ==
    <<pc, baseOptions, dmmf, cpus, genOptions, blocks, staged,
      directWrittenFilePaths, disk, workers, formatResult, events, error, dirs>>

runVarsButPc ==
    <<baseOptions, dmmf, cpus, genOptions, blocks, staged,
      directWrittenFilePaths, disk, workers, formatResult, events, error, dirs>>

cliVars == <<config, console>>

vars == <<renderVars, runVars, cliVars>>

-----------------------------------------------------------------------------
(* Bounds of the model.                                                    *)

\* the longest field list of a type drawn in Init
MaxFields == 2

\* the largest number of input types of a schema
MaxInputTypes == 2

\* the most files a failing worker has written when it fails
MaxPartialWrites == 1

\* the most source files and the most CPUs of a call of fastEmitTranspiledCode
\* drawn on its own
MaxFiles == 12
MaxCpus == 11

\* the most source files of a call of fastEmitTranspiledCode whose workers are
\* followed to their end
MaxEmitFiles == 3

-----------------------------------------------------------------------------
(* Names.  A name is a string; CodeUnits gives its UTF-16 code units, which *)
(* is what Array.prototype.sort() compares when no comparator is given.     *)

NONE == "<undefined>"

InputTypeNames == {"Ab", "B", "a"}
EnumNames == {"C", "Ca"}
OutputTypeNames == {"Agg", "Cnt"}
ModelNames == {"User"}
ScalarNames == {"Bytes", "Decimal"}

CodeUnits(name) ==
    CASE name = "Ab" -> <<65, 98>>
      [] name = "B" -> <<66>>
      [] name = "a" -> <<97>>
      [] name = "C" -> <<67>>
      [] name = "Ca" -> <<67, 97>>
      [] name = "Agg" -> <<65, 103, 103>>
      [] name = "Cnt" -> <<67, 110, 116>>
      [] name = "User" -> <<85, 115, 101, 114>>
      [] name = "idArgs" -> <<105, 100, 65, 114, 103, 115>>
      [] name = "titleArgs" -> <<116, 105, 116, 108, 101, 65, 114, 103, 115>>
      [] name = "kindArgs" -> <<107, 105, 110, 100, 65, 114, 103, 115>>
      [] name = "extraArgs" -> <<101, 120, 116, 114, 97, 65, 114, 103, 115>>
      [] OTHER -> <<>>

Min(a, b) == IF a < b THEN a ELSE b

\* a < b as JavaScript compares two strings: by code units, a proper prefix first
StrLess(a, b) ==
    LET ca == CodeUnits(a)
        cb == CodeUnits(b)
        n == Min(Len(ca), Len(cb))
        differ == {i \in 1..n : ca[i] # cb[i]}
        first == CHOOSE i \in differ : \A j \in differ : i <= j
    IN  IF differ = {} THEN Len(ca) < Len(cb) ELSE ca[first] < cb[first]

-----------------------------------------------------------------------------
(* Sequence helpers standing for the array methods the code uses.          *)

\* Array.prototype.filter
Filter(s, Keep(_)) == SelectSeq(s, Keep)

\* Array.prototype.map
Map(s, F(_)) == [i \in 1..Len(s) |-> F(s[i])]

\* Array.prototype.some
Some(s, P(_)) == \E i \in 1..Len(s) : P(s[i])

Range(s) == {s[i] : i \in 1..Len(s)}

\* [...new Set(array)]: the distinct elements in order of first occurrence
RECURSIVE SetSpread(_)
SetSpread(s) ==
    IF s = <<>> THEN <<>>
    ELSE LET init == SetSpread(SubSeq(s, 1, Len(s) - 1))
             last == s[Len(s)]
         IN  IF last \in Range(init) THEN init ELSE Append(init, last)

\* insert x into the sorted sequence s, after the elements not greater than x
RECURSIVE Insert(_, _)
Insert(s, x) ==
    IF s = <<>> THEN <<x>>
    ELSE IF StrLess(x, s[1]) THEN <<x>> \o s
    ELSE <<s[1]>> \o Insert(Tail(s), x)

\* Array.prototype.sort() without comparator, on strings (a stable sort)
RECURSIVE Sort(_)
Sort(s) ==
    IF s = <<>> THEN <<>> ELSE Insert(Sort(SubSeq(s, 1, Len(s) - 1)), s[Len(s)])

\* a ?? b
Coalesce(a, b) == IF a = NONE THEN b ELSE a

\* path.posix.join of segments that need no normalisation
PosixJoin2(a, b) ==
    IF a = "" THEN b ELSE IF b = "" THEN a ELSE a \o "/" \o b
PosixJoin3(a, b, c) == PosixJoin2(PosixJoin2(a, b), c)

-----------------------------------------------------------------------------
(* The inputs: DMMF types as the Document holds them.                      *)

FieldNames == <<"id", "title", "kind", "extra">>

\* the exposed name of a field whose name is remapped
ExposedName(name) == name \o "Alias"

InputTypeRefs ==
    [location : {"scalar"}, type : ScalarNames]
        \cup [location : {"inputObjectTypes"}, type : InputTypeNames]
        \cup [location : {"enumTypes"}, type : EnumNames]

\* the field at position i of an input type
InputField(i, ref, mapped, required, omitted) ==
    [name |-> FieldNames[i],
     typeName |-> IF mapped THEN ExposedName(FieldNames[i]) ELSE FieldNames[i],
     hasMappedName |-> mapped,
     isRequired |-> required,
     isOmitted |-> omitted,
     selectedInputType |-> ref,
     fieldTSType |-> ref.type,
     typeGraphQLType |-> ref.type]

\* the flags of a field: every combination for a field that is emitted, one
\* for a field that is omitted
InputFieldFlags ==
    [mapped : BOOLEAN, required : BOOLEAN, omitted : {FALSE}]
        \cup [mapped : {TRUE}, required : {FALSE}, omitted : {TRUE}]

\* the fields at position i: every target type for a plain required field,
\* for a remapped optional field and for an omitted field, every combination
\* of flags for three of the target types
InputFieldsAt(i) ==
    {InputField(i, ref, flags.mapped, flags.required, flags.omitted) :
        ref \in InputTypeRefs,
        flags \in {f \in InputFieldFlags : f.omitted \/ (f.mapped # f.required)}}
    \cup
    {InputField(i, ref, flags.mapped, flags.required, flags.omitted) :
        ref \in {[location |-> "scalar", type |-> "Decimal"],
                 [location |-> "inputObjectTypes", type |-> "B"],
                 [location |-> "enumTypes", type |-> "C"]},
        flags \in InputFieldFlags}

\* the field lists of length n: one field of InputFieldsAt(i) at each position i
RECURSIVE InputFieldListsOfLen(_)
InputFieldListsOfLen(n) ==
    IF n = 0 THEN {<<>>}
    ELSE {Append(fs, f) : fs \in InputFieldListsOfLen(n - 1), f \in InputFieldsAt(n)}

InputFieldLists == UNION {InputFieldListsOfLen(n) : n \in 0..MaxFields}

NoType == [typeName |-> NONE, fields |-> <<>>]

InputTypes == [typeName : {"Ab"}, fields : InputFieldLists]

OutputTypeRefs ==
    [location : {"scalar"}, type : ScalarNames]
        \cup [location : {"outputObjectTypes"}, type : OutputTypeNames \cup ModelNames]
        \cup [location : {"enumTypes"}, type : {"C"}]

\* the argument type generated for the field called name
ArgsTypeName(name) == name \o "Args"

\* the field at position i of an output type
OutputField(i, ref, hasArgs, required) ==
    [name |-> FieldNames[i],
     argsTypeName |-> IF hasArgs THEN ArgsTypeName(FieldNames[i]) ELSE NONE,
     isRequired |-> required,
     outputType |-> ref,
     fieldTSType |-> ref.type,
     typeGraphQLType |-> ref.type]

\* the fields at position i: every target type for a field without arguments
\* and for an optional field with arguments, every combination of flags for
\* two of the target types
OutputFieldsAt(i) ==
    {OutputField(i, ref, a, ~a) : ref \in OutputTypeRefs, a \in BOOLEAN}
    \cup
    {OutputField(i, ref, FALSE, FALSE) : ref \in OutputTypeRefs}
    \cup
    {OutputField(i, ref, a, r) :
        ref \in {[location |-> "outputObjectTypes", type |-> "Cnt"],
                 [location |-> "scalar", type |-> "Bytes"]},
        a \in BOOLEAN, r \in BOOLEAN}

RECURSIVE OutputFieldListsOfLen(_)
OutputFieldListsOfLen(n) ==
    IF n = 0 THEN {<<>>}
    ELSE {Append(fs, f) : fs \in OutputFieldListsOfLen(n - 1), f \in OutputFieldsAt(n)}

OutputFieldLists == UNION {OutputFieldListsOfLen(n) : n \in 0..MaxFields}

OutputTypes == [typeName : {"Agg"}, fields : OutputFieldLists]

\* DmmfDocument.isModelTypeName: the name is one of the Document's models
isModelTypeName(name) == name \in ModelNames

-----------------------------------------------------------------------------
(* The options of a run and their resolution (unnamed/part_002 98-117).    *)

OutputDirPaths == {"/app/generated/type-graphql", "/app/node_modules/@generated/tgql"}
PrismaClientPaths == {"/app/generated/client", "/app/node_modules/.prisma/client"}

\* String.prototype.includes("node_modules") on the paths above
IncludesNodeModules(path) ==
    path \in {"/app/node_modules/@generated/tgql", "/app/node_modules/.prisma/client"}

\* toUnixPath(path.relative(from, to)) on the paths above
RelativePath(from, to) ==
    CASE from = "/app/generated/type-graphql" /\ to = "/app/generated/client" ->
            "../client"
      [] from = "/app/generated/type-graphql" /\ to = "/app/node_modules/.prisma/client" ->
            "../../node_modules/.prisma/client"
      [] from = "/app/node_modules/@generated/tgql" /\ to = "/app/generated/client" ->
            "../../../generated/client"
      [] OTHER -> "../../.prisma/client"

BlockNames == {"enums", "models", "inputs", "outputs", "resolvers"}
Phase1Blocks == <<"enums", "models">>
Phase2Blocks == {"inputs", "outputs", "resolvers"}

\* an array option that is not set
UnsetList == <<NONE>>

\* parseStringBoolean of ./helpers: the boolean of "true" and "false", written
\* here as the string it came from, and undefined for any other value
parseStringBoolean(raw) == IF raw \in {"true", "false"} THEN raw ELSE NONE

\* unnamed/part_000 66-67: parseStringBoolean(config.verboseLogging) ?? false
VerboseLogging(cfg) == parseStringBoolean(cfg.verboseLogging) = "true"

\* what console.log prints: the message and where it comes from
Printed(origin, message) == [origin |-> origin, message |-> message]

\* unnamed/part_000 70-74: the log function of the cli
CliLog(out, cfg, message) ==
    IF VerboseLogging(cfg) THEN Append(out, Printed("cli", message)) ELSE out

\* EngineLog when the callback prints by itself
EngineLogUnconditional(out, cfg, messages) ==
    out \o [i \in 1..Len(messages) |-> Printed("engine", messages[i])]

\* unnamed/part_000 239: the callback handed to generateCode, which marks the
\* message and hands it to the log function, called for each of the messages
EngineLog(out, cfg, messages) ==
    IF VerboseLogging(cfg)
    THEN out \o [i \in 1..Len(messages) |-> Printed("engine", messages[i])]
    ELSE out

\* what a parse helper leaves when it throws on a value that is not allowed
INVALID == "<invalid>"

\* the same for a helper that returns an array
InvalidList == <<INVALID>>

\* ALL_EMIT_BLOCK_KINDS of ../generator/emit-block
ALL_EMIT_BLOCK_KINDS == BlockNames

\* parseStringArray of ./helpers on the items of the comma separated value:
\* undefined for an unset option, an error for an item that is not allowed
parseStringArray(raw, allowed) ==
    IF raw = UnsetList THEN UnsetList
    ELSE IF \A i \in 1..Len(raw) : raw[i] \in allowed THEN raw
    ELSE InvalidList

\* parseStringEnum of ./helpers: undefined for an unset option, an error for
\* a value that is not allowed
parseStringEnum(raw, allowed) ==
    IF raw = NONE THEN NONE
    ELSE IF raw \in allowed THEN raw
    ELSE INVALID

\* the GeneratorOptions `prisma generate` hands to the cli: the provider of the
\* client generator among otherGenerators, generator.output, and the raw value
\* of the options of generator.config, NONE for an option the schema leaves out
CliConfigs ==
    [provider : {"prisma-client-js", NONE},
     output : {"/app/generated/type-graphql"},
     verboseLogging : {NONE, "true"},
     emitDMMF : {NONE, "true"},
     emitTranspiledCode : {NONE, "true"},
     emitOnly : {UnsetList, <<"enums", "models">>, <<"enums", "tables">>},
     formatGeneratedCode : {NONE, "true", "prettier", "biome"}]

\* generate() of the engine called without the cli: nothing is configured and
\* the log callback is the default noop
NoConfig ==
    [provider |-> NONE, output |-> NONE, verboseLogging |-> NONE,
     emitDMMF |-> NONE, emitTranspiledCode |-> NONE, emitOnly |-> UnsetList,
     formatGeneratedCode |-> NONE]

\* unnamed/part_000 135-185: externalConfig and internalConfig, as far as the
\* engine reads them
ParseConfig(cfg) ==
    [outputDirPath |-> cfg.output,
     prismaClientPath |-> "/app/generated/client",
     customPrismaImportPath |-> NONE,
     emitTranspiledCode |-> parseStringBoolean(cfg.emitTranspiledCode),
     emitOnly |-> parseStringArray(cfg.emitOnly, ALL_EMIT_BLOCK_KINDS),
     formatGeneratedCode |->
        Coalesce(parseStringBoolean(cfg.formatGeneratedCode),
                 parseStringEnum(cfg.formatGeneratedCode, {"prettier", "tsc"})),
     emitIsAbstract |-> FALSE,
     simpleResolvers |-> FALSE]

\* a parse helper throws on the configuration
ConfigInvalid(cfg) ==
    \/ ParseConfig(cfg).emitOnly = InvalidList
    \/ ParseConfig(cfg).formatGeneratedCode = INVALID

\* the options a caller can hand to generate(); a string stands for each
\* value so that an unset option (NONE) compares with a set one.  The
\* allow-lists and the biome formatter are combined with both emission
\* modes, the other formatters and the boolean values of formatGeneratedCode
\* with the source mode, the values of emitTranspiledCode with both output
\* directories, and the custom import paths (unset, empty, set) with both
\* client paths.
BaseOptionsSet ==
    [outputDirPath : {"/app/generated/type-graphql"},
     prismaClientPath : {"/app/generated/client"},
     customPrismaImportPath : {NONE},
     emitTranspiledCode : {NONE, "true"},
     emitOnly : {UnsetList, <<"enums", "models">>},
     formatGeneratedCode : {NONE, "biome"},
     emitIsAbstract : {FALSE},
     simpleResolvers : {FALSE}]
    \cup
    [outputDirPath : {"/app/generated/type-graphql"},
     prismaClientPath : {"/app/generated/client"},
     customPrismaImportPath : {NONE},
     emitTranspiledCode : {NONE},
     emitOnly : {UnsetList},
     formatGeneratedCode : {"prettier", "tsc"},
     emitIsAbstract : {FALSE},
     simpleResolvers : {FALSE}]
    \cup
    [outputDirPath : {"/app/node_modules/@generated/tgql"},
     prismaClientPath : {"/app/generated/client"},
     customPrismaImportPath : {NONE},
     emitTranspiledCode : {NONE, "true", "false"},
     emitOnly : {UnsetList},
     formatGeneratedCode : {NONE},
     emitIsAbstract : {FALSE},
     simpleResolvers : {FALSE}]
    \cup
    [outputDirPath : {"/app/generated/type-graphql"},
     prismaClientPath : {"/app/generated/client"},
     customPrismaImportPath : {NONE},
     emitTranspiledCode : {NONE, "false"},
     emitOnly : {UnsetList},
     formatGeneratedCode : {"false", "true"},
     emitIsAbstract : {FALSE},
     simpleResolvers : {FALSE}]
    \cup
    [outputDirPath : {"/app/generated/type-graphql"},
     prismaClientPath : PrismaClientPaths,
     customPrismaImportPath : {NONE, "", "custom/client"},
     emitTranspiledCode : {NONE},
     emitOnly : {UnsetList},
     formatGeneratedCode : {NONE},
     emitIsAbstract : {FALSE},
     simpleResolvers : {FALSE}]

\* getBlocksToEmit of ./emit-block: every block, or the blocks of the allow-list
getBlocksToEmit(emitOnly) ==
    IF emitOnly = UnsetList THEN BlockNames ELSE Range(emitOnly)

\* unnamed/part_002 74-88
resolveFormatGeneratedCodeOption(formatOption) ==
    IF formatOption = "false" \/ formatOption = NONE THEN NONE
    ELSE IF formatOption = "true" THEN "tsc"
    ELSE formatOption

\* ResolveOptions with || in place of ?? for emitTranspiledCode
ResolveOptionsDefaultingFalse(base) ==
    [outputDirPath |-> base.outputDirPath,
     prismaClientPath |-> base.prismaClientPath,
     customPrismaImportPath |-> base.customPrismaImportPath,
     emitIsAbstract |-> base.emitIsAbstract,
     simpleResolvers |-> base.simpleResolvers,
     blocksToEmit |-> getBlocksToEmit(base.emitOnly),
     relativePrismaOutputPath |->
        RelativePath(base.outputDirPath, base.prismaClientPath),
     absolutePrismaOutputPath |->
        IF base.customPrismaImportPath \in {NONE, ""}
               /\ IncludesNodeModules(base.prismaClientPath)
        THEN "@prisma/client" ELSE NONE,
     formatGeneratedCode |-> resolveFormatGeneratedCodeOption(base.formatGeneratedCode),
     emitTranspiledCode |->
        IF base.emitTranspiledCode = "true" THEN TRUE
        ELSE IncludesNodeModules(base.outputDirPath)]

\* unnamed/part_002 98-117: Object.assign({}, baseOptions, {...}) and the
\* emission mode
ResolveOptions(base) ==
    [outputDirPath |-> base.outputDirPath,
     prismaClientPath |-> base.prismaClientPath,
     customPrismaImportPath |-> base.customPrismaImportPath,
     emitIsAbstract |-> base.emitIsAbstract,
     simpleResolvers |-> base.simpleResolvers,
     blocksToEmit |-> getBlocksToEmit(base.emitOnly),
     relativePrismaOutputPath |->
        RelativePath(base.outputDirPath, base.prismaClientPath),
     absolutePrismaOutputPath |->
        IF base.customPrismaImportPath \in {NONE, ""}
               /\ IncludesNodeModules(base.prismaClientPath)
        THEN "@prisma/client" ELSE NONE,
     formatGeneratedCode |-> resolveFormatGeneratedCodeOption(base.formatGeneratedCode),
     emitTranspiledCode |->
        IF base.emitTranspiledCode # NONE THEN base.emitTranspiledCode = "true"
        ELSE IncludesNodeModules(base.outputDirPath)]

\* the options the renderers are handed in the render specification: the
\* resolution of a run with the client inside and outside node_modules
OptionsSet ==
    {ResolveOptions([outputDirPath |-> "/app/generated/type-graphql",
                     prismaClientPath |->
                        IF a THEN "/app/node_modules/.prisma/client"
                        ELSE "/app/generated/client",
                     customPrismaImportPath |-> NONE,
                     emitTranspiledCode |-> NONE,
                     emitOnly |-> UnsetList,
                     formatGeneratedCode |-> NONE,
                     emitIsAbstract |-> a,
                     simpleResolvers |-> a]) : a \in BOOLEAN}

NoOptions == ResolveOptions(CHOOSE b \in BaseOptionsSet : TRUE)

-----------------------------------------------------------------------------
(* Lines of generated text.  One record per element of `lines`:            *)
(*   kind   what the line is,                                              *)
(*   names  the identifiers the line binds or uses, in order,              *)
(*   text   the module specifier, the type or the decorator argument,      *)
(*   flag   the nullable value of a Field decorator, the "!" of a member.  *)

Line(kind, names, text, flag) ==
    [kind |-> kind, names |-> names, text |-> text, flag |-> flag]

\* import * as <ns> from "<module>";
ImportNamespaceLine(ns, module) == Line("importNamespace", <<ns>>, module, FALSE)

\* import { <names> } from "<module>";
ImportLine(names, module) == Line("import", names, module, FALSE)

BlankLine == Line("blank", <<>>, "", FALSE)

\* @TypeGraphQL.InputType("<typeName>", <decoratorOptions>)
InputTypeDecoratorLine(typeName, decoratorOptions) ==
    Line("InputType", <<typeName>>, decoratorOptions, FALSE)

\* export class <typeName> {
ClassOpenLine(typeName) == Line("class", <<typeName>>, "", FALSE)

\* @TypeGraphQL.Field(_type => <typeGraphQLType>, { nullable: <nullable> })
FieldDecoratorLine(typeGraphQLType, nullable) ==
    Line("Field", <<>>, typeGraphQLType, nullable)

\* <name>!: <fieldTSType>;   or   <name>?: <fieldTSType>;
PropertyLine(name, required, fieldTSType) ==
    Line("property", <<name>>, fieldTSType, required)

\* get <typeName>() {
GetOpenLine(typeName) == Line("get", <<typeName>>, "", FALSE)

\* return this.<name>;
ReturnLine(name) == Line("return", <<name>>, "", FALSE)

\* set <typeName>(<name>: <fieldTSType>) {
SetOpenLine(typeName, name, fieldTSType) ==
    Line("set", <<typeName, name>>, fieldTSType, FALSE)

\* this.<name> = <name>;
AssignLine(name) == Line("assign", <<name>>, "", FALSE)

\* the "    }" closing an accessor
AccessorCloseLine == Line("endAccessor", <<>>, "", FALSE)

\* the "}" closing the class
ClassCloseLine == Line("endClass", <<>>, "", FALSE)

-----------------------------------------------------------------------------
(* generateInputTypeText (type-class.ts 273-397).                          *)

IsInputObjectField(field) == field.selectedInputType.location = "inputObjectTypes"
IsEnumField(field) == field.selectedInputType.location = "enumTypes"
IsBytesField(field) == field.selectedInputType.type = "Bytes"
InputFieldTypeName(field) == field.selectedInputType.type
NotOmitted(field) == ~field.isOmitted
HasMappedName(field) == field.hasMappedName

\* PrismaModuleSpecifier without the custom import path
PrismaModuleSpecifierOfClient(opts) ==
    Coalesce(opts.absolutePrismaOutputPath,
             PosixJoin3("..", "..",
                        PosixJoin2(opts.relativePrismaOutputPath, "client")))

\* type-class.ts 282-288
PrismaModuleSpecifier(opts) ==
    LET prismaImportPath ==
            Coalesce(opts.customPrismaImportPath,
                     PosixJoin2(opts.relativePrismaOutputPath, "client"))
    IN  Coalesce(opts.absolutePrismaOutputPath,
                 PosixJoin3("..", "..", prismaImportPath))

\* TextScalarsImportLines taking the branch of line 296 whatever the fields are
TextScalarsImportLinesAlwaysBytes(type) ==
    <<ImportLine(<<"DecimalJSScalar", "BytesScalar">>, PosixJoin3("..", "..", "scalars"))>>

\* type-class.ts 290-300
TextScalarsImportLines(type) ==
    LET hasBytes == Some(type.fields, IsBytesField)
        scalarsPath == PosixJoin3("..", "..", "scalars")
    IN  IF hasBytes
        THEN <<ImportLine(<<"DecimalJSScalar", "BytesScalar">>, scalarsPath)>>
        ELSE <<ImportLine(<<"DecimalJSScalar">>, scalarsPath)>>

\* TextInputTypeImports selecting the fields of the wrong location
TextInputTypeImportsWrongLocation(type) ==
    LET NotSelf(fieldType) == fieldType # type.typeName
    IN  Sort(SetSpread(Filter(Map(Filter(type.fields, IsEnumField),
                                  InputFieldTypeName),
                              NotSelf)))

\* type-class.ts 302-311
TextInputTypeImports(type) ==
    LET NotSelf(fieldType) == fieldType # type.typeName
    IN  Sort(SetSpread(Filter(Map(Filter(type.fields, IsInputObjectField),
                                  InputFieldTypeName),
                              NotSelf)))

\* type-class.ts 312-315
TextInputTypeImportLines(type) ==
    LET ToLine(importName) ==
            ImportLine(<<importName>>, PosixJoin3("..", "inputs", importName))
    IN  Map(TextInputTypeImports(type), ToLine)

\* TextEnumImports without the Set that removes the duplicates
TextEnumImportsNoSet(type) ==
    Sort(Map(Filter(type.fields, IsEnumField), InputFieldTypeName))

\* TextEnumImports without the sort
TextEnumImportsNoSort(type) ==
    SetSpread(Map(Filter(type.fields, IsEnumField), InputFieldTypeName))

\* type-class.ts 317-324
TextEnumImports(type) ==
    Sort(SetSpread(Map(Filter(type.fields, IsEnumField), InputFieldTypeName)))

\* type-class.ts 325-328
TextEnumImportLines(type) ==
    LET ToLine(enumName) ==
            ImportLine(<<enumName>>,
                       PosixJoin2("..", PosixJoin3("..", "enums", enumName)))
    IN  Map(TextEnumImports(type), ToLine)

\* type-class.ts 279-330
TextImportLines(type, opts) ==
    <<ImportNamespaceLine("TypeGraphQL", "type-graphql"),
      ImportNamespaceLine("GraphQLScalars", "graphql-scalars"),
      ImportLine(<<"Prisma">>, PrismaModuleSpecifier(opts))>>
        \o TextScalarsImportLines(type)
        \o TextInputTypeImportLines(type)
        \o TextEnumImportLines(type)
        \o <<BlankLine>>

\* type-class.ts 332-338
TextClassHeaderLines(type, opts) ==
    LET decoratorOptions ==
            IF opts.emitIsAbstract THEN "{ isAbstract: true }" ELSE "{}"
    IN  <<InputTypeDecoratorLine(type.typeName, decoratorOptions),
          ClassOpenLine(type.typeName)>>

\* TextFieldLines with the negation of isRequired forgotten in the decorator
TextFieldLinesNullableNotNegated(field, isLast) ==
    (IF field.hasMappedName
     THEN <<PropertyLine(field.name, field.isRequired, field.fieldTSType)>>
     ELSE <<FieldDecoratorLine(field.typeGraphQLType, field.isRequired),
            PropertyLine(field.name, field.isRequired, field.fieldTSType)>>)
        \o (IF ~isLast THEN <<BlankLine>> ELSE <<>>)

\* type-class.ts 344-366: one iteration of the loop over fieldsToEmit
TextFieldLines(field, isLast) ==
    (IF field.hasMappedName
     THEN <<PropertyLine(field.name, field.isRequired, field.fieldTSType)>>
     ELSE <<FieldDecoratorLine(field.typeGraphQLType, ~field.isRequired),
            PropertyLine(field.name, field.isRequired, field.fieldTSType)>>)
        \o (IF ~isLast THEN <<BlankLine>> ELSE <<>>)

\* type-class.ts 370-390: one iteration of the loop over mappedFields
TextAccessorLines(field, isLastMapped) ==
    <<FieldDecoratorLine(field.typeGraphQLType, ~field.isRequired),
      GetOpenLine(field.typeName),
      ReturnLine(field.name),
      AccessorCloseLine,
      BlankLine,
      SetOpenLine(field.typeName, field.name, field.fieldTSType),
      AssignLine(field.name),
      AccessorCloseLine>>
        \o (IF ~isLastMapped THEN <<BlankLine>> ELSE <<>>)

\* the concatenation of the sequences of a sequence
RECURSIVE Flatten(_)
Flatten(ss) == IF ss = <<>> THEN <<>> ELSE ss[1] \o Flatten(Tail(ss))

\* TextBodyLines with the hasMappedName filter of line 341 forgotten
TextBodyLinesAccessorsForAll(type) ==
    LET fieldsToEmit == Filter(type.fields, NotOmitted)
        mappedFields == fieldsToEmit
    IN  Flatten([i \in 1..Len(fieldsToEmit) |->
                    TextFieldLines(fieldsToEmit[i],
                                   i = Len(fieldsToEmit) /\ Len(mappedFields) = 0)])
            \o Flatten([i \in 1..Len(mappedFields) |->
                           TextAccessorLines(mappedFields[i], i = Len(mappedFields))])

\* TextBodyLines with the loops walking the fields from the last to the first
TextBodyLinesBackwards(type) ==
    LET toEmit == Filter(type.fields, NotOmitted)
        fieldsToEmit == [i \in 1..Len(toEmit) |-> toEmit[Len(toEmit) + 1 - i]]
        mappedFields == Filter(fieldsToEmit, HasMappedName)
    IN  Flatten([i \in 1..Len(fieldsToEmit) |->
                    TextFieldLines(fieldsToEmit[i],
                                   i = Len(fieldsToEmit) /\ Len(mappedFields) = 0)])
            \o Flatten([i \in 1..Len(mappedFields) |->
                           TextAccessorLines(mappedFields[i], i = Len(mappedFields))])

\* TextBodyLines with the isOmitted filter of line 340 forgotten
TextBodyLinesKeepingOmitted(type) ==
    LET fieldsToEmit == type.fields
        mappedFields == Filter(fieldsToEmit, HasMappedName)
    IN  Flatten([i \in 1..Len(fieldsToEmit) |->
                    TextFieldLines(fieldsToEmit[i],
                                   i = Len(fieldsToEmit) /\ Len(mappedFields) = 0)])
            \o Flatten([i \in 1..Len(mappedFields) |->
                           TextAccessorLines(mappedFields[i], i = Len(mappedFields))])

\* type-class.ts 340-391
TextBodyLines(type) ==
    LET fieldsToEmit == Filter(type.fields, NotOmitted)
        mappedFields == Filter(fieldsToEmit, HasMappedName)
    IN  Flatten([i \in 1..Len(fieldsToEmit) |->
                    TextFieldLines(fieldsToEmit[i],
                                   i = Len(fieldsToEmit) /\ Len(mappedFields) = 0)])
            \o Flatten([i \in 1..Len(mappedFields) |->
                           TextAccessorLines(mappedFields[i], i = Len(mappedFields))])

\* type-class.ts 273-397: the lines joined by "\n" into the returned text
generateInputTypeText(type, opts) ==
    TextImportLines(type, opts)
        \o TextClassHeaderLines(type, opts)
        \o TextBodyLines(type)
        \o <<ClassCloseLine, BlankLine>>

-----------------------------------------------------------------------------
(* The import helpers of ./imports, which the structure renderers call.    *)
(* A source file is [imports, class]: the import declarations in the order *)
(* they were added, and the structure handed to sourceFile.addClass.       *)

\* the module specifier of an element of a block directory, `level` levels up
ElementModuleSpecifier(elementsDirName, elementName, level) ==
    CASE level = 0 -> PosixJoin2(".", PosixJoin2(elementsDirName, elementName))
      [] level = 1 -> PosixJoin3("..", elementsDirName, elementName)
      [] OTHER -> PosixJoin2("..", PosixJoin3("..", elementsDirName, elementName))

\* generateInputsImports, generateEnumsImports, generateArgsImports,
\* generateOutputsImports, generateModelsImports: one import declaration per
\* distinct element name, in sorted order
ImportGenerator(elementsDirName, elementsNames, level) ==
    LET ToLine(elementName) ==
            ImportLine(<<elementName>>,
                       ElementModuleSpecifier(elementsDirName, elementName, level))
    IN  Map(Sort(SetSpread(elementsNames)), ToLine)

\* generateTypeGraphQLImport, generateGraphQLScalarsImport,
\* generatePrismaNamespaceImport(sourceFile, options, level)
FrameworkImports(opts) ==
    <<ImportNamespaceLine("TypeGraphQL", "type-graphql"),
      ImportNamespaceLine("GraphQLScalars", "graphql-scalars"),
      ImportLine(<<"Prisma">>, PrismaModuleSpecifier(opts))>>

\* the call generateCustomScalarsImport(sourceFile, hasBytes, level)
CustomScalarsImportCall(hasBytes) == Line("customScalarsImport", <<>>, "", hasBytes)

-----------------------------------------------------------------------------
(* generateInputTypeClassFromType (type-class.ts 160-271).                 *)

\* a { name: "TypeGraphQL.Field", arguments: [...] } decorator structure
FieldDecorator(typeGraphQLType, exposedName, nullable) ==
    [name |-> "TypeGraphQL.Field", typeGraphQLType |-> typeGraphQLType,
     exposedName |-> exposedName, nullable |-> nullable]

\* type-class.ts 183-189
ClassInputTypeImports(type) ==
    LET NotSelf(fieldType) == fieldType # type.typeName
    IN  ImportGenerator("inputs",
                        Filter(Map(Filter(type.fields, IsInputObjectField),
                                   InputFieldTypeName),
                               NotSelf),
                        1)

\* type-class.ts 190-197
ClassEnumImports(type) ==
    ImportGenerator("enums",
                    Map(Filter(type.fields, IsEnumField), InputFieldTypeName), 2)

\* type-class.ts 175-197
ClassInputImports(type, opts) ==
    FrameworkImports(opts)
        \o <<CustomScalarsImportCall(Some(type.fields, IsBytesField))>>
        \o ClassInputTypeImports(type)
        \o ClassEnumImports(type)

\* InputPropertyStructure with the Field decorator given to every property
InputPropertyStructureAlwaysDecorated(field) ==
    [name |-> field.name,
     type |-> field.fieldTSType,
     hasExclamationToken |-> field.isRequired,
     hasQuestionToken |-> ~field.isRequired,
     decorators |->
        <<FieldDecorator(field.typeGraphQLType, NONE, ~field.isRequired)>>]

\* type-class.ts 214-235
InputPropertyStructure(field) ==
    [name |-> field.name,
     type |-> field.fieldTSType,
     hasExclamationToken |-> field.isRequired,
     hasQuestionToken |-> ~field.isRequired,
     decorators |->
        IF field.hasMappedName THEN <<>>
        ELSE <<FieldDecorator(field.typeGraphQLType, NONE, ~field.isRequired)>>]

\* type-class.ts 236-256
GetAccessorStructure(field) ==
    [name |-> field.typeName,
     type |-> field.fieldTSType,
     hasExclamationToken |-> field.isRequired,
     hasQuestionToken |-> ~field.isRequired,
     returns |-> field.name,
     decorators |->
        <<FieldDecorator(field.typeGraphQLType, NONE, ~field.isRequired)>>]

\* type-class.ts 257-269
SetAccessorStructure(field) ==
    [name |-> field.typeName,
     type |-> field.fieldTSType,
     hasExclamationToken |-> field.isRequired,
     hasQuestionToken |-> ~field.isRequired,
     parameter |-> field.name,
     assigns |-> field.name]

\* type-class.ts 199-270
InputClassStructure(type, opts) ==
    LET fieldsToEmit == Filter(type.fields, NotOmitted)
        mappedFields == Filter(fieldsToEmit, HasMappedName)
    IN  [name |-> type.typeName,
         decorator |-> IF opts.emitIsAbstract THEN "{ isAbstract: true }" ELSE "{}",
         properties |-> Map(fieldsToEmit, InputPropertyStructure),
         getAccessors |-> Map(mappedFields, GetAccessorStructure),
         setAccessors |-> Map(mappedFields, SetAccessorStructure),
         methods |-> <<>>]

\* type-class.ts 160-271
generateInputTypeClassFromType(type, opts) ==
    [imports |-> ClassInputImports(type, opts),
     class |-> InputClassStructure(type, opts)]

-----------------------------------------------------------------------------
(* generateOutputTypeClassFromType (type-class.ts 29-158).                 *)

HasArgs(field) == field.argsTypeName # NONE
HasNoArgs(field) == field.argsTypeName = NONE
FieldArgsTypeName(field) == field.argsTypeName
IsOutputObjectField(field) == field.outputType.location = "outputObjectTypes"
IsOutputEnumField(field) == field.outputType.location = "enumTypes"
IsOutputBytesField(field) == field.outputType.type = "Bytes"
OutputFieldTypeName(field) == field.outputType.type
IsModelField(field) == isModelTypeName(field.outputType.type)
IsNotModelField(field) == ~isModelTypeName(field.outputType.type)

\* type-class.ts 41-43 and 59
OutputArgsImports(type) ==
    ImportGenerator("args", Map(Filter(type.fields, HasArgs), FieldArgsTypeName), 0)

\* type-class.ts 44-49 and 60-66
OutputOutputsImports(type) ==
    LET outputObjectTypes == Filter(type.fields, IsOutputObjectField)
    IN  ImportGenerator("outputs",
                        Map(Filter(outputObjectTypes, IsNotModelField),
                            OutputFieldTypeName),
                        1)

\* type-class.ts 44-49 and 67-71
OutputModelsImports(type) ==
    LET outputObjectTypes == Filter(type.fields, IsOutputObjectField)
        outputObjectModelTypes == Filter(outputObjectTypes, IsModelField)
    IN  ImportGenerator("models", Map(outputObjectModelTypes, OutputFieldTypeName), 2)

\* type-class.ts 72-79
OutputEnumImports(type) ==
    ImportGenerator("enums",
                    Map(Filter(type.fields, IsOutputEnumField), OutputFieldTypeName),
                    2)

\* type-class.ts 51-79
OutputImports(type, opts) ==
    FrameworkImports(opts)
        \o <<CustomScalarsImportCall(Some(type.fields, IsOutputBytesField))>>
        \o OutputArgsImports(type)
        \o OutputOutputsImports(type)
        \o OutputModelsImports(type)
        \o OutputEnumImports(type)

\* type-class.ts 101-118
OutputPropertyStructure(field) ==
    [name |-> field.name,
     type |-> field.fieldTSType,
     hasExclamationToken |-> TRUE,
     hasQuestionToken |-> FALSE,
     decorators |->
        <<FieldDecorator(field.typeGraphQLType, NONE, ~field.isRequired)>>]

\* type-class.ts 119-126
OutputArgsPropertyStructure(field) ==
    [name |-> field.name,
     type |-> field.fieldTSType,
     hasExclamationToken |-> TRUE,
     hasQuestionToken |-> FALSE,
     decorators |-> <<>>]

\* pascalCase of ./helpers, on the names a field can have
pascalCase(name) ==
    CASE name = "id" -> "Id"
      [] name = "title" -> "Title"
      [] name = "kind" -> "Kind"
      [] name = "extra" -> "Extra"
      [] OTHER -> name

\* OutputMethodStructure without the name option of the Field decorator
OutputMethodStructureUnnamed(type, field) ==
    [name |-> "get" \o pascalCase(field.name),
     returnType |-> field.fieldTSType,
     decorators |->
        <<FieldDecorator(field.typeGraphQLType, NONE, ~field.isRequired)>>,
     rootType |-> type.typeName,
     argsType |-> field.argsTypeName,
     returns |-> field.name]

\* type-class.ts 128-156
OutputMethodStructure(type, field) ==
    [name |-> "get" \o pascalCase(field.name),
     returnType |-> field.fieldTSType,
     decorators |->
        <<FieldDecorator(field.typeGraphQLType, field.name, ~field.isRequired)>>,
     rootType |-> type.typeName,
     argsType |-> field.argsTypeName,
     returns |-> field.name]

\* type-class.ts 81-157
OutputClassStructure(type, opts) ==
    LET Method(field) == OutputMethodStructure(type, field)
        decoratorOptions ==
            (IF opts.emitIsAbstract THEN <<"isAbstract: true">> ELSE <<>>)
                \o (IF opts.simpleResolvers THEN <<"simpleResolvers: true">> ELSE <<>>)
    IN  [name |-> type.typeName,
         decorator |-> decoratorOptions,
         properties |->
            Map(Filter(type.fields, HasNoArgs), OutputPropertyStructure)
                \o Map(Filter(type.fields, HasArgs), OutputArgsPropertyStructure),
         getAccessors |-> <<>>,
         setAccessors |-> <<>>,
         methods |-> Map(Filter(type.fields, HasArgs), Method)]

\* type-class.ts 29-158
generateOutputTypeClassFromType(type, opts) ==
    [imports |-> OutputImports(type, opts),
     class |-> OutputClassStructure(type, opts)]

-----------------------------------------------------------------------------
(* The arrays of a call.  filter, map and [...new Set()] return a new      *)
(* array; sort() reorders the array it is called on.  A call is followed   *)
(* through the arrays it creates, by the name of the expression, so that   *)
(* the array the Document holds ("fields") is known after the call.        *)

NewArray(arrays, name, value) == arrays @@ (name :> value)

\* Array.prototype.sort(): in place
SortArray(arrays, name) == [arrays EXCEPT ![name] = Sort(@)]

\* generateInputTypeText with fieldsToEmit made by removing the omitted fields
\* from inputType.fields itself
TextArraysSplicingOmitted(type) ==
    LET fields == [a \in {"fields"} |-> Filter(type.fields, NotOmitted)]
    IN  NewArray(fields, "fieldsToEmit", fields["fields"])

\* type-class.ts 290-341: the arrays of generateInputTypeText
TextArrays(type) ==
    LET NotSelf(fieldType) == fieldType # type.typeName
        a0 == [a \in {"fields"} |-> type.fields]
        a1 == NewArray(a0, "inputObjectFields", Filter(a0["fields"], IsInputObjectField))
        a2 == NewArray(a1, "inputObjectNames",
                       Map(a1["inputObjectFields"], InputFieldTypeName))
        a3 == NewArray(a2, "otherInputObjectNames",
                       Filter(a2["inputObjectNames"], NotSelf))
        a4 == NewArray(a3, "inputTypeImports", SetSpread(a3["otherInputObjectNames"]))
        a5 == SortArray(a4, "inputTypeImports")
        a6 == NewArray(a5, "enumFields", Filter(a5["fields"], IsEnumField))
        a7 == NewArray(a6, "enumNames", Map(a6["enumFields"], InputFieldTypeName))
        a8 == NewArray(a7, "enumImports", SetSpread(a7["enumNames"]))
        a9 == SortArray(a8, "enumImports")
        a10 == NewArray(a9, "fieldsToEmit", Filter(a9["fields"], NotOmitted))
    IN  NewArray(a10, "mappedFields", Filter(a10["fieldsToEmit"], HasMappedName))

\* type-class.ts 41-79 and 100-156: the arrays of
\* generateOutputTypeClassFromType; an import helper may sort the array it is
\* handed
OutputArrays(type) ==
    LET a0 == [a \in {"fields"} |-> type.fields]
        a1 == NewArray(a0, "fieldArgsTypeNames",
                       Map(Filter(a0["fields"], HasArgs), FieldArgsTypeName))
        a2 == NewArray(a1, "outputObjectTypes", Filter(a1["fields"], IsOutputObjectField))
        a3 == NewArray(a2, "outputObjectModelTypes",
                       Filter(a2["outputObjectTypes"], IsModelField))
        a4 == SortArray(a3, "fieldArgsTypeNames")
        a5 == NewArray(a4, "outputsNames",
                       Map(Filter(a4["outputObjectTypes"], IsNotModelField),
                           OutputFieldTypeName))
        a6 == SortArray(a5, "outputsNames")
        a7 == NewArray(a6, "modelsNames",
                       Map(a6["outputObjectModelTypes"], OutputFieldTypeName))
        a8 == SortArray(a7, "modelsNames")
        a9 == NewArray(a8, "enumsNames",
                       Map(Filter(a8["fields"], IsOutputEnumField), OutputFieldTypeName))
        a10 == SortArray(a9, "enumsNames")
        a11 == NewArray(a10, "properties",
                        Filter(a10["fields"], HasNoArgs) \o Filter(a10["fields"], HasArgs))
    IN  NewArray(a11, "methods", Filter(a11["fields"], HasArgs))

\* the type as the Document holds it after a call that left these arrays
TypeAfter(type, arrays) == [type EXCEPT !.fields = arrays["fields"]]

-----------------------------------------------------------------------------
(* Files and paths.  A path is [dir, base, ext] so that replacing the      *)
(* extension is an operation on it; a content is a sequence of lines.      *)

Path(dir, base, ext) == [dir |-> dir, base |-> base, ext |-> ext]

\* filePath.replace(/\.ts$/, '.js') (unnamed/part_002 58)
JsPath(path) == IF path.ext = "ts" THEN [path EXCEPT !.ext = "js"] ELSE path

\* the declaration file the compiler emits for a source file
DtsPath(path) == [path EXCEPT !.ext = "d.ts"]

\* fs.writeFileSync and the writes of project.save(): the file is replaced
WriteFile(tree, path, content) ==
    {entry \in tree : entry[1] # path} \cup {<<path, content>>}

Exists(tree, path) == \E entry \in tree : entry[1] = path

\* fs.readFileSync(filePath, 'utf8')
ReadFile(tree, path) == (CHOOSE entry \in tree : entry[1] = path)[2]

RECURSIVE WriteFiles(_, _)
WriteFiles(tree, files) ==
    IF files = <<>> THEN tree
    ELSE WriteFiles(WriteFile(tree, files[1].path, files[1].content), Tail(files))

\* a source file created in a ts-morph project and filled by a generator whose
\* text this model does not look into
SourceFile(dir, base) ==
    [path |-> Path(dir, base, "ts"),
     content |-> <<Line("sourceFile", <<base>>, dir, FALSE)>>]

\* ts.transpileModule(content, ...).outputText
Transpile(content) == <<Line("transpiled", <<>>, "", FALSE)>> \o content

\* the declarations program.emit() writes for a source file
Declaration(content) == <<Line("declaration", <<>>, "", FALSE)>> \o content

\* what prettier --write and biome format --write leave of a file
Formatted(content) ==
    IF content # <<>> /\ content[1].kind = "formatted" THEN content
    ELSE <<Line("formatted", <<>>, "", FALSE)>> \o content

-----------------------------------------------------------------------------
(* The schemas of the runs: the first input types of a fixed list.         *)

SchemaInputTypes ==
    <<[typeName |-> "Ab",
       fields |-> <<InputField(1, [location |-> "inputObjectTypes", type |-> "B"],
                               TRUE, TRUE, FALSE),
                    InputField(2, [location |-> "enumTypes", type |-> "C"],
                               FALSE, FALSE, FALSE)>>],
      [typeName |-> "B",
       fields |-> <<InputField(1, [location |-> "scalar", type |-> "Bytes"],
                               FALSE, TRUE, FALSE),
                    InputField(2, [location |-> "inputObjectTypes", type |-> "B"],
                               FALSE, FALSE, TRUE)>>],
      [typeName |-> "a",
       fields |-> <<InputField(1, [location |-> "inputObjectTypes", type |-> "Ab"],
                               FALSE, FALSE, FALSE)>>]>>

Schemas ==
    {SubSeq(SchemaInputTypes, 1, n) :
        n \in 0..Min(MaxInputTypes, Len(SchemaInputTypes))}

CpuCounts == {1, 4}

-----------------------------------------------------------------------------
(* The block generators of the block-generation directory.                 *)

\* BaseBlockGenerator: dmmfDocument.shouldGenerateBlock(name)
shouldGenerateBlock(opts, name) == name \in opts.blocksToEmit

\* the directory of a block below the output directory
BlockDirPath(baseDirPath, name) ==
    IF name \in {"enums", "models"} THEN PosixJoin2(baseDirPath, name)
    ELSE PosixJoin3(baseDirPath, "resolvers", name)

\* unnamed/part_000 281-285
InputsDirPath(baseDirPath) == PosixJoin3(baseDirPath, "resolvers", "inputs")

\* unnamed/part_000 293
InputTypeFilePath(baseDirPath, type) ==
    Path(InputsDirPath(baseDirPath), type.typeName, "ts")

TypeNameOf(type) == type.typeName

\* InputsBarrelFile when the name of the first input type is not pushed
InputsBarrelFileSkippingFirst(baseDirPath, allInputTypes) ==
    [path |-> Path(InputsDirPath(baseDirPath), "index", "ts"),
     content |-> <<Line("barrel", SubSeq(allInputTypes, 2, Len(allInputTypes)),
                        "inputs", FALSE)>>]

\* unnamed/part_000 299-304: the barrel file staged in the project and
\* the names handed to generateInputsBarrelFile
InputsBarrelFile(baseDirPath, allInputTypes) ==
    [path |-> Path(InputsDirPath(baseDirPath), "index", "ts"),
     content |-> <<Line("barrel", allInputTypes, "inputs", FALSE)>>]

\* unnamed/part_000 291-297: the files the loop writes for the first
\* `count` input types
InputTypeFiles(types, opts, count) ==
    [i \in 1..count |->
        [path |-> InputTypeFilePath(opts.outputDirPath, types[i]),
         content |-> generateInputTypeText(types[i], opts)]]

PathOf(file) == file.path

\* unnamed/part_000 291-297: the input types of the Document after the loop
\* handed each of the first `count` types to generateInputTypeText
InputTypesAfterGenerate(types, opts, count) ==
    LET After(type) == TypeAfter(type, TextArrays(type))
    IN  IF shouldGenerateBlock(opts, "inputs")
        THEN Map(SubSeq(types, 1, count), After) \o SubSeq(types, count + 1, Len(types))
        ELSE types

\* InputBlockMetrics without the early return of shouldGenerate()
InputBlockMetricsWithoutGuard(types, opts) ==
    [itemsGenerated |-> Len(types),
     directWrittenFilePaths |-> Map(InputTypeFiles(types, opts, Len(types)), PathOf),
     stagedFiles |->
        <<InputsBarrelFile(opts.outputDirPath, Map(types, TypeNameOf))>>]

\* unnamed/part_000 275-311: GenerationMetrics of a complete run
InputBlockMetrics(types, opts) ==
    IF ~shouldGenerateBlock(opts, "inputs")
    THEN [itemsGenerated |-> 0, directWrittenFilePaths |-> <<>>, stagedFiles |-> <<>>]
    ELSE [itemsGenerated |-> Len(types),
          directWrittenFilePaths |-> Map(InputTypeFiles(types, opts, Len(types)), PathOf),
          stagedFiles |->
             <<InputsBarrelFile(opts.outputDirPath, Map(types, TypeNameOf))>>]

\* the generators of the other blocks: each stages the re-export file of its
\* directory when its block is to be emitted
OtherBlockMetrics(opts, name) ==
    IF ~shouldGenerateBlock(opts, name)
    THEN [itemsGenerated |-> 0, directWrittenFilePaths |-> <<>>, stagedFiles |-> <<>>]
    ELSE [itemsGenerated |-> 0,
          directWrittenFilePaths |-> <<>>,
          stagedFiles |-> <<SourceFile(BlockDirPath(opts.outputDirPath, name), "index")>>]

\* unnamed/part_002 170-211: enhance.ts, scalars.ts, helpers.ts, index.ts
AuxiliaryFiles(baseDirPath) ==
    <<SourceFile(baseDirPath, "enhance"),
      SourceFile(baseDirPath, "scalars"),
      SourceFile(baseDirPath, "helpers"),
      SourceFile(baseDirPath, "index")>>

-----------------------------------------------------------------------------
(* The emission stage (unnamed/part_002 321-426).                          *)

\* unnamed/part_002 352: the cap of transpile workers
MaxJsWorkers == 8

Max(a, b) == IF a > b THEN a ELSE b

\* JsWorkerCount without the cap of Math.min
JsWorkerCountUncapped(cpuCount) == Max(1, cpuCount - 2)

\* unnamed/part_002 352
JsWorkerCount(cpuCount) == Min(Max(1, cpuCount - 2), MaxJsWorkers)

\* Math.ceil(n / count) for count >= 1
CeilDiv(n, count) == (n + count - 1) \div count

\* BatchesFrom with slice(i, batchSize) in place of slice(i, i + batchSize)
RECURSIVE BatchesFromSlicingToBatchSize(_, _, _)
BatchesFromSlicingToBatchSize(allFilePaths, i, batchSize) ==
    IF i >= Len(allFilePaths) THEN <<>>
    ELSE <<SubSeq(allFilePaths, i + 1, Min(batchSize, Len(allFilePaths)))>>
            \o BatchesFromSlicingToBatchSize(allFilePaths, i + batchSize, batchSize)

\* unnamed/part_002 365-368: the loop for (i = 0; i < length; i += batchSize)
RECURSIVE BatchesFrom(_, _, _)
BatchesFrom(allFilePaths, i, batchSize) ==
    IF i >= Len(allFilePaths) THEN <<>>
    ELSE <<SubSeq(allFilePaths, i + 1, Min(i + batchSize, Len(allFilePaths)))>>
            \o BatchesFrom(allFilePaths, i + batchSize, batchSize)

\* unnamed/part_002 364-368
JsBatches(allFilePaths, cpuCount) ==
    BatchesFrom(allFilePaths, 0, CeilDiv(Len(allFilePaths), JsWorkerCount(cpuCount)))

\* unnamed/part_002 374-381 and 393-400: a worker thread and its workerData
Worker(kind, filePaths) ==
    [kind |-> kind, filePaths |-> filePaths, status |-> "running",
     written |-> <<>>, reason |-> [message |-> NONE], rejects |-> FALSE]

\* the file list without the files the block generators wrote themselves
AllFilePathsStagedOnly(stagedFiles, additionalFilePaths) ==
    Map(stagedFiles, PathOf)

\* unnamed/part_002 333-336
AllFilePaths(stagedFiles, additionalFilePaths) ==
    Map(stagedFiles, PathOf) \o additionalFilePaths

\* unnamed/part_002 370-407: one transpile worker per batch, then the
\* declaration worker over every file
StartWorkers(allFilePaths, cpuCount) ==
    LET JsWorker(batch) == Worker("js", batch)
    IN  Map(JsBatches(allFilePaths, cpuCount), JsWorker)
            \o <<Worker("dts", allFilePaths)>>

\* a declaration worker that emits the transpiled file instead
WorkerOutputDtsEmittingJs(tree, kind, path) ==
    [path |-> JsPath(path), content |-> Transpile(ReadFile(tree, path))]

\* JS_WORKER_CODE (48-60) and DTS_WORKER_CODE (62-69): the file a worker
\* writes for one of its source files
WorkerOutput(tree, kind, path) ==
    IF kind = "js"
    THEN [path |-> JsPath(path), content |-> Transpile(ReadFile(tree, path))]
    ELSE [path |-> DtsPath(path), content |-> Declaration(ReadFile(tree, path))]

\* the tree after the worker handled the first `count` of its files
WorkerWrites(tree, worker, count) ==
    LET Output(path) == WorkerOutput(tree, worker.kind, path)
    IN  WriteFiles(tree, Map(SubSeq(worker.filePaths, 1, count), Output))

\* the paths the worker wrote while it handled the first `count` of its files
WorkerWritten(tree, worker, count) ==
    LET OutputPath(path) == WorkerOutput(tree, worker.kind, path).path
    IN  Map(SubSeq(worker.filePaths, 1, count), OutputPath)

JsWorkers(ws) == {i \in 1..Len(ws) : ws[i].kind = "js"}
DtsWorkers(ws) == {i \in 1..Len(ws) : ws[i].kind = "dts"}

\* a Promise.all that takes a worker's end for its success
JsPromiseResolvingOnAnyExit(ws) ==
    IF \A i \in JsWorkers(ws) : ws[i].status # "running" THEN "fulfilled"
    ELSE "pending"

\* Promise.all of the transpile workers (370-390): rejected by the first
\* failure (an error event or an exit with another code), fulfilled when every
\* worker exited with code 0
JsPromise(ws) ==
    IF \E i \in JsWorkers(ws) : ws[i].status \in {"failed", "errored"} THEN "rejected"
    ELSE IF \A i \in JsWorkers(ws) : ws[i].status = "exited" THEN "fulfilled"
    ELSE "pending"

\* DtsPromise without the reject of an exit with another code and without
\* the error listener
DtsPromiseWithoutReject(ws) ==
    IF \A i \in DtsWorkers(ws) : ws[i].status = "exited" THEN "fulfilled"
    ELSE "pending"

\* the promise of the declaration worker (392-407)
DtsPromise(ws) ==
    IF \E i \in DtsWorkers(ws) : ws[i].status \in {"failed", "errored"} THEN "rejected"
    ELSE IF \A i \in DtsWorkers(ws) : ws[i].status = "exited" THEN "fulfilled"
    ELSE "pending"

\* reject(new Error(`JS worker exited with code ${code}`)) (385) and its
\* DTS twin (404)
ExitError(kind, code) ==
    [message |-> "worker exited with code", worker |-> kind, code |-> code]

\* worker.on("error", reject) (387, 406): the error thrown inside the worker
\* while it handled the file
ThrownError(path) == [message |-> "thrown in worker", filePath |-> path]

\* the reasons a worker that fails after `count` files can reject with
FailureReasons(worker, count) ==
    {ExitError(worker.kind, 1), ThrownError(worker.filePaths[count + 1])}

\* the reason a rejected promise carries: that of the first failure
PromiseReason(ws, indices) ==
    ws[CHOOSE i \in indices : ws[i].rejects].reason

\* throw new Error(`JS emission failed: ${jsResult.reason}`) (420-425)
EmissionError(stage, reason) ==
    [message |-> "emission failed", stage |-> stage, reason |-> reason]

\* the files the formatter rewrites: `${baseDirPath}/**/*.ts`
FormattedTree(tree) ==
    {IF entry[1].ext \in {"ts", "d.ts"}
     THEN <<entry[1], Formatted(entry[2])>> ELSE entry : entry \in tree}

-----------------------------------------------------------------------------
(* CodeGenerator.generate (unnamed/part_002 90-319), step by step.         *)

RunInit ==
    /\ pc = "start"
    /\ baseOptions \in BaseOptionsSet
    /\ dmmf \in Schemas
    /\ cpus \in CpuCounts
    /\ genOptions = NoOptions
    /\ blocks = [name \in BlockNames |-> "pending"]
    /\ staged = <<>>
    /\ directWrittenFilePaths = <<>>
    /\ disk = {}
    /\ workers = <<>>
    /\ formatResult = "none"
    /\ events = <<>>
    /\ dirs = {}
    /\ config = NoConfig
    /\ console = <<>>
    /\ error = [message |-> NONE]

\* no run: the state of the run variables in the render specification
RunIdle ==
    /\ pc = "idle"
    /\ baseOptions = CHOOSE b \in BaseOptionsSet : TRUE
    /\ dmmf = <<>>
    /\ cpus = 1
    /\ genOptions = NoOptions
    /\ blocks = [name \in BlockNames |-> "pending"]
    /\ staged = <<>>
    /\ directWrittenFilePaths = <<>>
    /\ disk = {}
    /\ workers = <<>>
    /\ formatResult = "none"
    /\ events = <<>>
    /\ dirs = {}
    /\ config = NoConfig
    /\ console = <<>>
    /\ error = [message |-> NONE]

\* a message passed to the log callback of generate()
Log(message) == [sink |-> "log", name |-> message]

\* this.metrics.emitMetric(name, ...)
Metric(name) == [sink |-> "metric", name |-> name]

\* this.metrics.onComplete()
Callback(name) == [sink |-> "callback", name |-> name]

\* execa(...) of the formatter (unnamed/part_002 246, 278, 295)
Exec(tool) == [sink |-> "exec", name |-> tool]

\* FormatterTool with the branches of prettier and biome exchanged
FormatterToolExchanged(mode) ==
    IF mode = "tsc" THEN "tsc"
    ELSE IF mode = "prettier" THEN "biome"
    ELSE "prettier"

\* unnamed/part_002 242-301: the branch of the formatter step taken for a mode
FormatterTool(mode) ==
    IF mode = "tsc" THEN "tsc"
    ELSE IF mode = "prettier" THEN "prettier"
    ELSE "biome"

\* the engine passes each of the messages to its log callback
Logged(messages) ==
    /\ events' = events \o [i \in 1..Len(messages) |-> Log(messages[i])]
    /\ console' = EngineLog(console, config, messages)
    /\ UNCHANGED config

\* unnamed/part_002 95-150: the options are resolved, the Document and the
\* block generator factory are built
Start ==
    /\ pc = "start"
    /\ genOptions' = ResolveOptions(baseOptions)
    /\ pc' = "blocks"
    /\ UNCHANGED <<baseOptions, dmmf, cpus, blocks, staged, directWrittenFilePaths,
                   disk, workers, formatResult, error>>
    /\ Logged(<<"Transforming dmmfDocument...">>)
    /\ UNCHANGED dirs
    /\ UNCHANGED renderVars

\* new DmmfDocument(dmmf, options) (unnamed/part_002 130) throws: the
\* normalization fails on a type reference it cannot resolve
StartFails ==
    /\ pc = "start"
    /\ genOptions' = ResolveOptions(baseOptions)
    /\ pc' = "failed"
    /\ error' = [message |-> "SchemaResolutionError"]
    /\ UNCHANGED <<baseOptions, dmmf, cpus, blocks, staged, directWrittenFilePaths,
                   disk, workers, formatResult>>
    /\ Logged(<<"Transforming dmmfDocument...">>)
    /\ UNCHANGED dirs
    /\ UNCHANGED renderVars

\* unnamed/part_002 156-167: the callback handed to generateAllBlocks
ReportBlock(name, metrics) ==
    /\ blocks' = [blocks EXCEPT ![name] = "reported"]
    /\ directWrittenFilePaths' =
          directWrittenFilePaths \o metrics.directWrittenFilePaths

\* the block generators that may run now: enums, then models, then the
\* three other blocks in any order
Runnable(name) ==
    /\ blocks[name] = "pending"
    /\ \/ name = "enums"
       \/ name = "models" /\ blocks["enums"] = "reported"
       \/ name \in Phase2Blocks /\ blocks["enums"] = "reported"
                                 /\ blocks["models"] = "reported"

\* InputBlockGenerator.generate() (unnamed/part_000 275-311) and the
\* report of its metrics
GenerateInputs ==
    /\ pc = "blocks"
    /\ Runnable("inputs")
    /\ LET metrics == InputBlockMetrics(dmmf, genOptions)
       IN  /\ disk' = WriteFiles(disk,
                                 InputTypeFiles(dmmf, genOptions, metrics.itemsGenerated))
           /\ staged' = staged \o metrics.stagedFiles
           /\ ReportBlock("inputs", metrics)
    /\ dmmf' = InputTypesAfterGenerate(dmmf, genOptions, Len(dmmf))
    /\ UNCHANGED <<pc, baseOptions, cpus, genOptions, workers, formatResult, error>>
    /\ UNCHANGED events
    /\ dirs' = IF shouldGenerateBlock(genOptions, "inputs")
                THEN dirs \cup {InputsDirPath(genOptions.outputDirPath)}
                ELSE dirs
    /\ UNCHANGED cliVars
    /\ UNCHANGED renderVars

\* GenerateInputsFails when the loop goes on after the failing write and the
\* error is thrown at its end
GenerateInputsFailsAtTheEnd ==
    /\ pc = "blocks"
    /\ Runnable("inputs")
    /\ shouldGenerateBlock(genOptions, "inputs")
    /\ \E failing \in 1..Len(dmmf) :
          LET files == InputTypeFiles(dmmf, genOptions, Len(dmmf))
              Written(file) == file # files[failing]
          IN  disk' = WriteFiles(disk, Filter(files, Written))
    /\ dmmf' = InputTypesAfterGenerate(dmmf, genOptions, Len(dmmf))
    /\ dirs' = dirs \cup {InputsDirPath(genOptions.outputDirPath)}
    /\ pc' = "failed"
    /\ error' = [message |-> "IOError"]
    /\ UNCHANGED <<baseOptions, cpus, genOptions, blocks, staged,
                   directWrittenFilePaths, workers, formatResult>>
    /\ UNCHANGED events
    /\ UNCHANGED cliVars
    /\ UNCHANGED renderVars

\* InputBlockGenerator.generate() when fs.writeFileSync throws at the file of
\* the input type number failing: the files before it are written, the error
\* leaves generate()
GenerateInputsFails ==
    /\ pc = "blocks"
    /\ Runnable("inputs")
    /\ shouldGenerateBlock(genOptions, "inputs")
    /\ \E failing \in 1..Len(dmmf) :
          /\ disk' = WriteFiles(disk, InputTypeFiles(dmmf, genOptions, failing - 1))
          /\ dmmf' = InputTypesAfterGenerate(dmmf, genOptions, failing)
    /\ pc' = "failed"
    /\ error' = [message |-> "IOError"]
    /\ UNCHANGED <<baseOptions, cpus, genOptions, blocks, staged,
                   directWrittenFilePaths, workers, formatResult>>
    /\ UNCHANGED events
    /\ dirs' = dirs \cup {InputsDirPath(genOptions.outputDirPath)}
    /\ UNCHANGED cliVars
    /\ UNCHANGED renderVars

\* the generator of another block and the report of its metrics
GenerateBlock(name) ==
    /\ pc = "blocks"
    /\ name # "inputs"
    /\ Runnable(name)
    /\ LET metrics == OtherBlockMetrics(genOptions, name)
       IN  /\ staged' = staged \o metrics.stagedFiles
           /\ ReportBlock(name, metrics)
    /\ UNCHANGED <<pc, baseOptions, dmmf, cpus, genOptions, disk, workers,
                   formatResult, error>>
    /\ UNCHANGED events
    /\ UNCHANGED dirs
    /\ UNCHANGED cliVars
    /\ UNCHANGED renderVars

\* StageAuxiliaryFiles when generateAllBlocks is not awaited
StageAuxiliaryFilesNotAwaiting ==
    /\ pc = "blocks"
    /\ staged' = staged \o AuxiliaryFiles(genOptions.outputDirPath)
    /\ pc' = "emit"
    /\ UNCHANGED <<baseOptions, dmmf, cpus, genOptions, blocks,
                   directWrittenFilePaths, disk, workers, formatResult, error>>
    /\ Logged(<<"Generate auxiliary files">>)
    /\ UNCHANGED dirs
    /\ UNCHANGED renderVars

\* unnamed/part_002 170-217: generateAllBlocks has returned
StageAuxiliaryFiles ==
    /\ pc = "blocks"
    /\ \A name \in BlockNames : blocks[name] = "reported"
    /\ staged' = staged \o AuxiliaryFiles(genOptions.outputDirPath)
    /\ pc' = "emit"
    /\ UNCHANGED <<baseOptions, dmmf, cpus, genOptions, blocks,
                   directWrittenFilePaths, disk, workers, formatResult, error>>
    /\ Logged(<<"Generate auxiliary files">>)
    /\ UNCHANGED dirs
    /\ UNCHANGED renderVars

\* SaveSources with the save of the projects forgotten
SaveSourcesWithoutSave ==
    /\ pc = "emit"
    /\ ~genOptions.emitTranspiledCode
    /\ pc' = "format"
    /\ UNCHANGED <<baseOptions, dmmf, cpus, genOptions, blocks, staged,
                   directWrittenFilePaths, disk, workers, formatResult, error>>
    /\ Logged(<<"Emitting final code", "Saving generated code">>)
    /\ UNCHANGED dirs
    /\ UNCHANGED renderVars

\* unnamed/part_002 232 and 330: a save of a project rejects after some of the
\* staged files are written; no worker is started
SaveFails ==
    /\ pc = "emit"
    /\ \E count \in 0..Min(MaxPartialWrites, Len(staged) - 1) :
          disk' = WriteFiles(disk, SubSeq(staged, 1, count))
    /\ pc' = "failed"
    /\ error' = [message |-> "IOError", stage |-> "save"]
    /\ UNCHANGED <<baseOptions, dmmf, cpus, genOptions, blocks, staged,
                   directWrittenFilePaths, workers, formatResult>>
    /\ Logged(<<"Emitting final code",
                IF genOptions.emitTranspiledCode
                THEN "Transpiling generated code" ELSE "Saving generated code">>)
    /\ UNCHANGED dirs
    /\ UNCHANGED renderVars

\* unnamed/part_002 229-234: source mode, both projects are saved
SaveSources ==
    /\ pc = "emit"
    /\ ~genOptions.emitTranspiledCode
    /\ disk' = WriteFiles(disk, staged)
    /\ pc' = "format"
    /\ UNCHANGED <<baseOptions, dmmf, cpus, genOptions, blocks, staged,
                   directWrittenFilePaths, workers, formatResult, error>>
    /\ Logged(<<"Emitting final code", "Saving generated code">>)
    /\ UNCHANGED dirs
    /\ UNCHANGED renderVars

\* SaveAndStartWorkers without the await of the save
SaveAndStartWorkersNotAwaitingSave ==
    /\ pc = "emit"
    /\ genOptions.emitTranspiledCode
    /\ disk' = disk
    /\ workers' = StartWorkers(AllFilePaths(staged, directWrittenFilePaths), cpus)
    /\ pc' = "workers"
    /\ UNCHANGED <<baseOptions, dmmf, cpus, genOptions, blocks, staged,
                   directWrittenFilePaths, formatResult, error>>
    /\ Logged(<<"Emitting final code", "Transpiling generated code", "Emitting .js + .d.ts in parallel">>)
    /\ UNCHANGED dirs
    /\ UNCHANGED renderVars

\* unnamed/part_002 221-228 and 327-407: compiled mode, both projects are
\* saved and the workers are started
SaveAndStartWorkers ==
    /\ pc = "emit"
    /\ genOptions.emitTranspiledCode
    /\ disk' = WriteFiles(disk, staged)
    /\ workers' = StartWorkers(AllFilePaths(staged, directWrittenFilePaths), cpus)
    /\ pc' = "workers"
    /\ UNCHANGED <<baseOptions, dmmf, cpus, genOptions, blocks, staged,
                   directWrittenFilePaths, formatResult, error>>
    /\ Logged(<<"Emitting final code", "Transpiling generated code", "Emitting .js + .d.ts in parallel">>)
    /\ UNCHANGED dirs
    /\ UNCHANGED renderVars

\* a worker handles all its files and exits with code 0
WorkerExits(w) ==
    /\ pc = "workers"
    /\ w \in 1..Len(workers)
    /\ workers[w].status = "running"
    /\ \A i \in 1..Len(workers[w].filePaths) : Exists(disk, workers[w].filePaths[i])
    /\ disk' = WorkerWrites(disk, workers[w], Len(workers[w].filePaths))
    /\ workers' = [workers EXCEPT
                       ![w].status = "exited",
                       ![w].written = WorkerWritten(disk, workers[w],
                                                    Len(workers[w].filePaths))]
    /\ UNCHANGED <<pc, baseOptions, dmmf, cpus, genOptions, blocks, staged,
                   directWrittenFilePaths, formatResult, error>>
    /\ UNCHANGED events
    /\ UNCHANGED dirs
    /\ UNCHANGED cliVars
    /\ UNCHANGED renderVars

\* a worker throws or exits with another code after it handled some of its
\* files
WorkerFails(w) ==
    /\ pc = "workers"
    /\ w \in 1..Len(workers)
    /\ workers[w].status = "running"
    /\ \E count \in 0..Min(MaxPartialWrites, Len(workers[w].filePaths) - 1) :
          /\ \A i \in 1..count : Exists(disk, workers[w].filePaths[i])
          /\ disk' = WorkerWrites(disk, workers[w], count)
          /\ \E reason \in FailureReasons(workers[w], count) :
                workers' = [workers EXCEPT
                    ![w].status = "failed",
                    ![w].written = WorkerWritten(disk, workers[w], count),
                    ![w].reason = reason,
                    ![w].rejects = \A v \in 1..Len(workers) :
                        workers[v].kind = workers[w].kind
                            => workers[v].status # "failed"]
    /\ UNCHANGED <<pc, baseOptions, dmmf, cpus, genOptions, blocks, staged,
                   directWrittenFilePaths, formatResult, error>>
    /\ UNCHANGED events
    /\ UNCHANGED dirs
    /\ UNCHANGED cliVars
    /\ UNCHANGED renderVars

\* EmissionSettles with the result of the declaration stage tested first
EmissionSettlesDeclarationsFirst ==
    /\ pc = "workers"
    /\ JsPromise(workers) # "pending"
    /\ DtsPromise(workers) # "pending"
    /\ IF DtsPromise(workers) = "rejected"
       THEN /\ pc' = "failed"
            /\ error' = EmissionError("DTS", PromiseReason(workers, DtsWorkers(workers)))
       ELSE IF JsPromise(workers) = "rejected"
       THEN /\ pc' = "failed"
            /\ error' = EmissionError("JS", PromiseReason(workers, JsWorkers(workers)))
       ELSE pc' = "format" /\ error' = error
    /\ UNCHANGED <<baseOptions, dmmf, cpus, genOptions, blocks, staged,
                   directWrittenFilePaths, disk, workers, formatResult>>
    /\ events' = Append(events, Metric("emit-js-dts"))
    /\ UNCHANGED dirs
    /\ UNCHANGED cliVars
    /\ UNCHANGED renderVars

\* unnamed/part_002 409-425: Promise.allSettled has both results
EmissionSettles ==
    /\ pc = "workers"
    /\ JsPromise(workers) # "pending"
    /\ DtsPromise(workers) # "pending"
    /\ IF JsPromise(workers) = "rejected"
       THEN /\ pc' = "failed"
            /\ error' = EmissionError("JS", PromiseReason(workers, JsWorkers(workers)))
       ELSE IF DtsPromise(workers) = "rejected"
       THEN /\ pc' = "failed"
            /\ error' = EmissionError("DTS", PromiseReason(workers, DtsWorkers(workers)))
       ELSE pc' = "format" /\ error' = error
    /\ UNCHANGED <<baseOptions, dmmf, cpus, genOptions, blocks, staged,
                   directWrittenFilePaths, disk, workers, formatResult>>
    /\ events' = Append(events, Metric("emit-js-dts"))
    /\ UNCHANGED dirs
    /\ UNCHANGED cliVars
    /\ UNCHANGED renderVars

\* unnamed/part_002 237: no formatter is configured
SkipFormat ==
    /\ pc = "format"
    /\ genOptions.formatGeneratedCode = NONE
    /\ pc' = "complete"
    /\ UNCHANGED <<baseOptions, dmmf, cpus, genOptions, blocks, staged,
                   directWrittenFilePaths, disk, workers, formatResult, error>>
    /\ UNCHANGED events
    /\ UNCHANGED dirs
    /\ UNCHANGED cliVars
    /\ UNCHANGED renderVars

\* unnamed/part_002 238-307: the formatter subprocess succeeds; tsc --noEmit
\* writes nothing, prettier and biome rewrite the .ts files
FormatSucceeds ==
    /\ pc = "format"
    /\ genOptions.formatGeneratedCode # NONE
    /\ disk' = IF genOptions.formatGeneratedCode = "tsc" THEN disk
               ELSE FormattedTree(disk)
    /\ formatResult' = "ok"
    /\ pc' = "complete"
    /\ UNCHANGED <<baseOptions, dmmf, cpus, genOptions, blocks, staged,
                   directWrittenFilePaths, workers, error>>
    /\ events' = events \o
          <<Log("Formatting generated code"),
            Exec(FormatterTool(genOptions.formatGeneratedCode)),
            Metric(FormatterTool(genOptions.formatGeneratedCode) \o "-formatting"),
            Metric("code-formatting")>>
    /\ UNCHANGED dirs
    /\ console' = EngineLog(console, config, <<"Formatting generated code">>)
    /\ UNCHANGED config
    /\ UNCHANGED renderVars

\* FormatFails with a retry: the formatter step is entered again
FormatFailsRetrying ==
    /\ pc = "format"
    /\ genOptions.formatGeneratedCode # NONE
    /\ formatResult' = "failed"
    /\ events' = events \o
          <<Log("Formatting generated code"),
            Exec(FormatterTool(genOptions.formatGeneratedCode)),
            Log("Warning: Code formatting failed")>>
    /\ UNCHANGED <<pc, baseOptions, dmmf, cpus, genOptions, blocks, staged,
                   directWrittenFilePaths, disk, workers, error>>
    /\ UNCHANGED dirs
    /\ console' = EngineLog(console, config, <<"Formatting generated code", "Warning: Code formatting failed">>)
    /\ UNCHANGED config
    /\ UNCHANGED renderVars

\* FormatFails without the try/catch: the error of the formatter leaves
\* generate()
FormatFailsUncaught ==
    /\ pc = "format"
    /\ genOptions.formatGeneratedCode # NONE
    /\ formatResult' = "failed"
    /\ events' = events \o
          <<Log("Formatting generated code"),
            Exec(FormatterTool(genOptions.formatGeneratedCode))>>
    /\ pc' = "failed"
    /\ error' = [message |-> "Code formatting failed"]
    /\ UNCHANGED <<baseOptions, dmmf, cpus, genOptions, blocks, staged,
                   directWrittenFilePaths, disk, workers>>
    /\ UNCHANGED dirs
    /\ console' = EngineLog(console, config, <<"Formatting generated code">>)
    /\ UNCHANGED config
    /\ UNCHANGED renderVars

\* unnamed/part_002 308-313: the formatter subprocess fails before it rewrote
\* a file; the error is caught and logged
FormatFails ==
    /\ pc = "format"
    /\ genOptions.formatGeneratedCode # NONE
    /\ formatResult' = "failed"
    /\ pc' = "complete"
    /\ UNCHANGED <<baseOptions, dmmf, cpus, genOptions, blocks, staged,
                   directWrittenFilePaths, disk, workers, error>>
    /\ events' = events \o
          <<Log("Formatting generated code"),
            Exec(FormatterTool(genOptions.formatGeneratedCode)),
            Log("Warning: Code formatting failed")>>
    /\ UNCHANGED dirs
    /\ console' = EngineLog(console, config, <<"Formatting generated code", "Warning: Code formatting failed">>)
    /\ UNCHANGED config
    /\ UNCHANGED renderVars

\* Complete with the callback invoked before the last metric
CompleteCallingBackFirst ==
    /\ pc = "complete"
    /\ pc' = "done"
    /\ UNCHANGED <<baseOptions, dmmf, cpus, genOptions, blocks, staged,
                   directWrittenFilePaths, disk, workers, formatResult, error>>
    /\ events' = events \o <<Metric("code-emission"),
                             Callback("onComplete"),
                             Metric("total-generation")>>
    /\ UNCHANGED dirs
    /\ UNCHANGED cliVars
    /\ UNCHANGED renderVars

\* unnamed/part_002 316-318: the final metrics and onComplete
Complete ==
    /\ pc = "complete"
    /\ pc' = "done"
    /\ UNCHANGED <<baseOptions, dmmf, cpus, genOptions, blocks, staged,
                   directWrittenFilePaths, disk, workers, formatResult, error>>
    /\ events' = events \o <<Metric("code-emission"),
                             Metric("total-generation"),
                             Callback("onComplete")>>
    /\ UNCHANGED dirs
    /\ UNCHANGED cliVars
    /\ UNCHANGED renderVars

Next ==
    \/ Start
    \/ StartFails
    \/ GenerateInputs
    \/ GenerateInputsFails
    \/ \E name \in BlockNames : GenerateBlock(name)
    \/ StageAuxiliaryFiles
    \/ SaveFails
    \/ SaveSources
    \/ SaveAndStartWorkers
    \/ \E w \in 1..Len(workers) : WorkerExits(w)
    \/ \E w \in 1..Len(workers) : WorkerFails(w)
    \/ EmissionSettles
    \/ SkipFormat
    \/ FormatSucceeds
    \/ FormatFails
    \/ Complete

-----------------------------------------------------------------------------
(* The renderers applied to the types the Document can hold.               *)

NoText == <<>>

NoFile == [imports |-> <<>>, class |-> [name |-> NONE]]

RenderInit ==
    /\ \/ inputType \in InputTypes /\ outputType = NoType
       \/ inputType = NoType /\ outputType \in OutputTypes
    /\ options \in OptionsSet
    /\ textFile = NoText
    /\ inputClassFile = NoFile
    /\ outputClassFile = NoFile

\* no rendering: the state of the render variables in the specification of a run
RenderIdle ==
    /\ inputType = NoType
    /\ outputType = NoType
    /\ options = NoOptions
    /\ textFile = NoText
    /\ inputClassFile = NoFile
    /\ outputClassFile = NoFile

\* InputBlockGenerator.generate calls generateInputTypeText(type, this.options)
RenderInputText ==
    /\ inputType # NoType
    /\ textFile = NoText
    /\ textFile' = generateInputTypeText(inputType, options)
    /\ inputType' = TypeAfter(inputType, TextArrays(inputType))
    /\ UNCHANGED <<outputType, options, inputClassFile, outputClassFile>>
    /\ UNCHANGED runVars
    /\ UNCHANGED cliVars

\* a caller applies generateInputTypeClassFromType to the same type
RenderInputClass ==
    /\ inputType # NoType
    /\ inputClassFile = NoFile
    /\ inputClassFile' = generateInputTypeClassFromType(inputType, options)
    /\ UNCHANGED <<inputType, outputType, options, textFile, outputClassFile>>
    /\ UNCHANGED runVars
    /\ UNCHANGED cliVars

\* a caller applies generateOutputTypeClassFromType to an output type
RenderOutputClass ==
    /\ outputType # NoType
    /\ outputClassFile = NoFile
    /\ outputClassFile' = generateOutputTypeClassFromType(outputType, options)
    /\ outputType' = TypeAfter(outputType, OutputArrays(outputType))
    /\ UNCHANGED <<inputType, options, textFile, inputClassFile>>
    /\ UNCHANGED runVars
    /\ UNCHANGED cliVars

RenderNext == RenderInputText \/ RenderInputClass \/ RenderOutputClass

\* the renderers on every type of the bounded sets
RenderSpecInit == RenderInit /\ RunIdle

RenderSpec == RenderSpecInit /\ [][RenderNext]_vars

\* a call of fastEmitTranspiledCode on projects that hold n source files, on a
\* machine with any number of CPUs
EmitInit ==
    /\ RenderIdle
    /\ pc = "emit"
    /\ baseOptions = [(CHOOSE b \in BaseOptionsSet : TRUE)
                        EXCEPT !.emitTranspiledCode = "true"]
    /\ genOptions = ResolveOptions(baseOptions)
    /\ dmmf = <<>>
    /\ cpus \in 0..MaxCpus
    /\ blocks = [name \in BlockNames |-> "reported"]
    /\ \E n \in 0..MaxFiles :
          staged = [i \in 1..n |-> SourceFile(genOptions.outputDirPath, ToString(i))]
    /\ directWrittenFilePaths = <<>>
    /\ disk = {}
    /\ workers = <<>>
    /\ formatResult = "none"
    /\ events = <<>>
    /\ dirs = {}
    /\ config = NoConfig
    /\ console = <<>>
    /\ error = [message |-> NONE]

\* the start of the emission stage on every file count and CPU count
EmitSpec == EmitInit /\ [][SaveAndStartWorkers]_vars

\* the runs of CodeGenerator.generate
Init == RenderIdle /\ RunInit

-----------------------------------------------------------------------------
(* The cli: generate(options) of unnamed/part_000 59-253.                  *)

\* the directories of the output tree
DirsBelow(dir) ==
    {dir, PosixJoin2(dir, "resolvers")} \cup {BlockDirPath(dir, name) : name \in BlockNames}

\* removeDir(dir, true) of ../utils/removeDir: the content of the directory is
\* removed, the directory stays
removeDir(tree, dir) == {entry \in tree : entry[1].dir \notin DirsBelow(dir)}

\* a file an earlier run or another tool left
StaleFile(dir, base, ext) == <<Path(dir, base, ext), <<Line("stale", <<base>>, dir, FALSE)>>>>

\* what the disk holds before a run: nothing, or the output of an earlier run
\* on another schema next to a file of the generated client
StaleTrees(outputDir) ==
    {{},
     {StaleFile(InputsDirPath(outputDir), "Old", "ts"),
      StaleFile(InputsDirPath(outputDir), "Old", "js"),
      StaleFile(outputDir, "index", "ts"),
      StaleFile(outputDir, "dmmf", "json"),
      StaleFile("/app/generated/client", "index", "js")}}

\* unnamed/part_000 191-198: dmmf.json and prisma-client-dmmf.json
DmmfFiles(outputDir, schema) ==
    <<[path |-> Path(outputDir, "dmmf", "json"),
       content |-> <<Line("json", Map(schema, TypeNameOf), "options.dmmf", FALSE)>>],
      [path |-> Path(outputDir, "prisma-client-dmmf", "json"),
       content |-> <<Line("json", Map(schema, TypeNameOf), "prismaClientDmmf", FALSE)>>]>>

\* CliSetup with the removeDir call left out
CliSetupWithoutClear ==
    /\ pc = "cli"
    /\ console' = CliLog(Append(console, Printed("always", "TypeGraphQL Generator Started")),
                         config, "Directory setup")
    /\ dirs' = {config.output}
    /\ pc' = "config"
    /\ UNCHANGED <<baseOptions, dmmf, cpus, genOptions, blocks, staged,
                   directWrittenFilePaths, disk, workers, formatResult, events, error>>
    /\ UNCHANGED config
    /\ UNCHANGED renderVars

\* CliSetup when the client generator is looked up and the options are parsed
\* before the output directory is set up
CliSetupAfterLookup ==
    /\ pc = "cli"
    /\ IF config.provider = NONE \/ ConfigInvalid(config)
       THEN /\ console' = Append(console, Printed("always", "TypeGraphQL Generator Started"))
            /\ pc' = "failed"
            /\ error' = [message |-> "ConfigError"]
            /\ UNCHANGED <<disk, dirs>>
       ELSE /\ console' = CliLog(Append(console, Printed("always", "TypeGraphQL Generator Started")),
                                 config, "Directory setup")
            /\ disk' = removeDir(disk, config.output)
            /\ dirs' = {config.output}
            /\ pc' = "config"
            /\ UNCHANGED error
    /\ UNCHANGED <<baseOptions, dmmf, cpus, genOptions, blocks, staged,
                   directWrittenFilePaths, workers, formatResult, events>>
    /\ UNCHANGED config
    /\ UNCHANGED renderVars

\* unnamed/part_000 59-81: the banner, the log function, mkdir and removeDir
\* of the output directory
CliSetup ==
    /\ pc = "cli"
    /\ console' = CliLog(Append(console, Printed("always", "TypeGraphQL Generator Started")),
                         config, "Directory setup")
    /\ disk' = removeDir(disk, config.output)
    /\ dirs' = {config.output}
    /\ pc' = "config"
    /\ UNCHANGED <<baseOptions, dmmf, cpus, genOptions, blocks, staged,
                   directWrittenFilePaths, workers, formatResult, events, error>>
    /\ UNCHANGED config
    /\ UNCHANGED renderVars

\* CliConfigFails when the DMMF files are written before the options are parsed
CliConfigFailsAfterDump ==
    /\ pc = "config"
    /\ config.provider = NONE \/ ConfigInvalid(config)
    /\ disk' = IF parseStringBoolean(config.emitDMMF) = "true"
               THEN WriteFiles(disk, DmmfFiles(config.output, dmmf)) ELSE disk
    /\ pc' = "failed"
    /\ error' = [message |-> "ConfigError"]
    /\ UNCHANGED <<baseOptions, dmmf, cpus, genOptions, blocks, staged,
                   directWrittenFilePaths, workers, formatResult, events, dirs>>
    /\ UNCHANGED cliVars
    /\ UNCHANGED renderVars

\* unnamed/part_000 83-181: no client generator is found, or a parse helper
\* throws on an option
CliConfigFails ==
    /\ pc = "config"
    /\ config.provider = NONE \/ ConfigInvalid(config)
    /\ pc' = "failed"
    /\ error' = [message |-> "ConfigError"]
    /\ UNCHANGED <<baseOptions, dmmf, cpus, genOptions, blocks, staged,
                   directWrittenFilePaths, disk, workers, formatResult, events, dirs>>
    /\ UNCHANGED cliVars
    /\ UNCHANGED renderVars

\* unnamed/part_000 83-187: the client generator is found and the options
\* are parsed
CliConfig ==
    /\ pc = "config"
    /\ config.provider # NONE
    /\ ~ConfigInvalid(config)
    /\ baseOptions' = ParseConfig(config)
    /\ console' = CliLog(CliLog(console, config, "Prisma client path"),
                         config, "Config parsing")
    /\ pc' = "dump"
    /\ UNCHANGED <<dmmf, cpus, genOptions, blocks, staged,
                   directWrittenFilePaths, disk, workers, formatResult, events,
                   error, dirs>>
    /\ UNCHANGED config
    /\ UNCHANGED renderVars

\* unnamed/part_000 189-233: the DMMF files when emitDMMF is set, and the
\* comparison messages before generateCode is called
CliDump ==
    /\ pc = "dump"
    /\ disk' = IF parseStringBoolean(config.emitDMMF) = "true"
               THEN WriteFiles(disk, DmmfFiles(config.output, dmmf)) ELSE disk
    /\ console' = CliLog(IF parseStringBoolean(config.emitDMMF) = "true"
                         THEN CliLog(console, config, "DMMF file writing")
                         ELSE console,
                         config, "DMMF Comparison")
    /\ pc' = "start"
    /\ UNCHANGED <<baseOptions, dmmf, cpus, genOptions, blocks, staged,
                   directWrittenFilePaths, workers, formatResult, events, error, dirs>>
    /\ UNCHANGED config
    /\ UNCHANGED renderVars

\* unnamed/part_000 244-252: generateCode has resolved
CliReturn ==
    /\ pc = "done"
    /\ config # NoConfig
    /\ console' = CliLog(CliLog(console, config, "Core code generation"),
                         config, "Total generator time")
    /\ pc' = "returned"
    /\ UNCHANGED runVarsButPc
    /\ UNCHANGED config
    /\ UNCHANGED renderVars

CliNext ==
    \/ CliSetup
    \/ CliConfigFails
    \/ CliConfig
    \/ CliDump
    \/ Start
    \/ StartFails
    \/ GenerateInputs
    \/ GenerateInputsFails
    \/ \E name \in BlockNames : GenerateBlock(name)
    \/ StageAuxiliaryFiles
    \/ SaveFails
    \/ SaveSources
    \/ SaveAndStartWorkers
    \/ \E w \in 1..Len(workers) : WorkerExits(w)
    \/ \E w \in 1..Len(workers) : WorkerFails(w)
    \/ EmissionSettles
    \/ SkipFormat
    \/ FormatSucceeds
    \/ FormatFails
    \/ Complete
    \/ CliReturn

\* `prisma generate` calls the cli on a schema with one input type, on a
\* machine with four CPUs
CliInit ==
    /\ RenderIdle
    /\ pc = "cli"
    /\ config \in CliConfigs
    /\ console = <<>>
    /\ baseOptions = CHOOSE b \in BaseOptionsSet : TRUE
    /\ genOptions = NoOptions
    /\ dmmf = SubSeq(SchemaInputTypes, 1, 1)
    /\ cpus = 4
    /\ blocks = [name \in BlockNames |-> "pending"]
    /\ staged = <<>>
    /\ directWrittenFilePaths = <<>>
    /\ disk \in StaleTrees("/app/generated/type-graphql")
    /\ dirs = {}
    /\ workers = <<>>
    /\ formatResult = "none"
    /\ events = <<>>
    /\ error = [message |-> NONE]

CliSpec == CliInit /\ [][CliNext]_vars

Spec == Init /\ [][Next]_vars

-----------------------------------------------------------------------------
(* Reading a generated file back.                                          *)

Indices(s) == 1..Len(s)

\* the import lines of a file that bind `name`
ImportsOf(lines, name) ==
    {i \in Indices(lines) : lines[i].kind = "import" /\ name \in Range(lines[i].names)}

\* the lines of a text from "export class" to the closing "}", both included
ClassBody(text) ==
    LET open == CHOOSE i \in Indices(text) : text[i].kind = "class"
        close == CHOOSE i \in Indices(text) : text[i].kind = "endClass"
    IN  SubSeq(text, open, close)

\* the lines of a text that declare the property `name`
PropertyLinesOf(text, name) ==
    {i \in Indices(text) : text[i].kind = "property" /\ text[i].names[1] = name}

\* the lines of a text that open a getter / a setter called `name`
GetLinesOf(text, name) ==
    {i \in Indices(text) : text[i].kind = "get" /\ text[i].names[1] = name}

SetLinesOf(text, name) ==
    {i \in Indices(text) : text[i].kind = "set" /\ text[i].names[1] = name}

\* a decorator line decorates the member declared on the next line
IsDecorated(text, i) == i > 1 /\ text[i - 1].kind = "Field"

\* the Field decorator lines that decorate a member of the field: its property
\* under the storage name or its getter under the exposed name
FieldDecoratorLinesOf(text, field) ==
    {i - 1 : i \in {j \in PropertyLinesOf(text, field.name)
                            \cup GetLinesOf(text, field.typeName) : IsDecorated(text, j)}}

\* every line of a text that mentions one of the two names of the field
LinesMentioning(text, field) ==
    {i \in Indices(text) :
        /\ text[i].kind \in {"property", "get", "set", "return", "assign"}
        /\ Range(text[i].names) \cap {field.name, field.typeName} # {}}

\* the members of a class structure that stem from the field
PropertiesOf(class, name) ==
    {i \in Indices(class.properties) : class.properties[i].name = name}

GetAccessorsOf(class, name) ==
    {i \in Indices(class.getAccessors) : class.getAccessors[i].name = name}

SetAccessorsOf(class, name) ==
    {i \in Indices(class.setAccessors) : class.setAccessors[i].name = name}

MethodsOf(class, name) ==
    {i \in Indices(class.methods) : class.methods[i].returns = name}

\* the type without the field at position i
RemoveField(type, i) ==
    [type EXCEPT !.fields =
        SubSeq(type.fields, 1, i - 1) \o SubSeq(type.fields, i + 1, Len(type.fields))]

Reverse(s) == [i \in Indices(s) |-> s[Len(s) + 1 - i]]

TextRendered == textFile # NoText
InputClassRendered == inputClassFile # NoFile
OutputClassRendered == outputClassFile # NoFile

EmittedFields == {i \in Indices(inputType.fields) : ~inputType.fields[i].isOmitted}
OmittedFields == {i \in Indices(inputType.fields) : inputType.fields[i].isOmitted}

-----------------------------------------------------------------------------
(* Claims about the renderers, checked under RenderSpec.                   *)

FieldDecoratorLines(text) == {i \in Indices(text) : text[i].kind = "Field"}

\* C1: a field flagged isOmitted gets no property, no Field decorator and no
\* accessor from either input renderer, and the class body is the one rendered
\* for the type with that field removed.
C1_OmittedFieldNotEmitted ==
    /\ TextRendered =>
          /\ Cardinality(FieldDecoratorLines(textFile)) = Cardinality(EmittedFields)
          /\ \A i \in OmittedFields :
                /\ LinesMentioning(textFile, inputType.fields[i]) = {}
                /\ ClassBody(textFile)
                      = ClassBody(generateInputTypeText(RemoveField(inputType, i),
                                                        options))
    /\ InputClassRendered =>
          \A i \in OmittedFields :
            LET field == inputType.fields[i]
                class == inputClassFile.class
            IN  /\ PropertiesOf(class, field.name) = {}
                /\ GetAccessorsOf(class, field.typeName) = {}
                /\ SetAccessorsOf(class, field.typeName) = {}
                /\ class = generateInputTypeClassFromType(RemoveField(inputType, i),
                                                          options).class

\* both renderers ran on a type with an omitted remapped field next to an
\* emitted one
C1_Witness ==
    /\ TextRendered
    /\ InputClassRendered
    /\ \E i \in OmittedFields : inputType.fields[i].hasMappedName
    /\ EmittedFields # {}

\* the emitted fields whose target type is a generated input type or an enum
ReferencingFields ==
    {i \in EmittedFields :
        inputType.fields[i].selectedInputType.location
            \in {"inputObjectTypes", "enumTypes"}}

\* C2: in the text of an input type, the target type of every emitted field
\* located in inputObjectTypes or enumTypes is the type itself or is bound by
\* exactly one import line.
C2_ReferencedTypesImportedOnce ==
    TextRendered =>
        \A i \in ReferencingFields :
            LET target == inputType.fields[i].selectedInputType.type
            IN  \/ target = inputType.typeName
                \/ Cardinality(ImportsOf(textFile, target)) = 1

\* the text of a type with two emitted fields of the same external input type
C2_Witness ==
    /\ TextRendered
    /\ \E i, j \in ReferencingFields :
          /\ i # j
          /\ inputType.fields[i].selectedInputType
                = inputType.fields[j].selectedInputType
          /\ inputType.fields[i].selectedInputType.location = "inputObjectTypes"
          /\ inputType.fields[i].selectedInputType.type # inputType.typeName

\* C3: no generated type file imports the type it declares, for input types
\* (both renderers) and for output types.
C3_NoSelfImport ==
    /\ TextRendered => ImportsOf(textFile, inputType.typeName) = {}
    /\ InputClassRendered =>
          ImportsOf(inputClassFile.imports, inputType.typeName) = {}
    /\ OutputClassRendered =>
          ImportsOf(outputClassFile.imports, outputType.typeName) = {}

\* the names referenced by two or more fields of the input type, by location
SharedTargets(location) ==
    {inputType.fields[i].selectedInputType.type :
        i \in {j \in Indices(inputType.fields) :
                 /\ inputType.fields[j].selectedInputType.location = location
                 /\ \E k \in Indices(inputType.fields) :
                       /\ k # j
                       /\ inputType.fields[k].selectedInputType
                             = inputType.fields[j].selectedInputType}}

\* C4: an external input type or an enum referenced by two or more fields of an
\* input type is imported by exactly one import entry of the generated file.
C4_SharedTargetImportedOnce ==
    \A name \in (SharedTargets("inputObjectTypes") \ {inputType.typeName})
                    \cup SharedTargets("enumTypes") :
        /\ TextRendered => Cardinality(ImportsOf(textFile, name)) = 1
        /\ InputClassRendered =>
              Cardinality(ImportsOf(inputClassFile.imports, name)) = 1

\* both renderers ran on a type whose fields all reference one enum
C4_Witness ==
    /\ TextRendered
    /\ InputClassRendered
    /\ Len(inputType.fields) >= 2
    /\ SharedTargets("enumTypes") # {}

\* the import lines of a text that bind a name of the set
ImportLinesOfCategory(text, category) ==
    {i \in Indices(text) :
        text[i].kind = "import" /\ Range(text[i].names) \cap category # {}}

\* the import lines of the category bind increasing names
SortedCategory(text, category) ==
    \A i, j \in ImportLinesOfCategory(text, category) :
        i < j => StrLess(text[i].names[1], text[j].names[1])

-----------------------------------------------------------------------------
(* Claims about a run, checked under Spec.                                 *)

\* the source files a run on the schema with the options generates, as a set
ExpectedSourceFiles(schema, opts) ==
    (IF shouldGenerateBlock(opts, "inputs")
     THEN Range(InputTypeFiles(schema, opts, Len(schema)))
            \cup {InputsBarrelFile(opts.outputDirPath, Map(schema, TypeNameOf))}
     ELSE {})
    \cup {SourceFile(BlockDirPath(opts.outputDirPath, name), "index") :
            name \in opts.blocksToEmit \ {"inputs"}}
    \cup Range(AuxiliaryFiles(opts.outputDirPath))

\* the tree a complete emission of the source files leaves
ExpectedEmittedTree(schema, opts) ==
    LET sources == ExpectedSourceFiles(schema, opts)
    IN  {<<file.path, file.content>> : file \in sources}
        \cup (IF opts.emitTranspiledCode
              THEN {<<JsPath(file.path), Transpile(file.content)>> : file \in sources}
                    \cup {<<DtsPath(file.path), Declaration(file.content)>> :
                            file \in sources}
              ELSE {})

\* the tree of a complete run, which depends on the schema, on the options and
\* on whether the formatter rewrote the files
ExpectedTree(schema, base, formatted) ==
    LET opts == ResolveOptions(base)
        tree == ExpectedEmittedTree(schema, opts)
    IN  IF formatted /\ opts.formatGeneratedCode \notin {NONE, "tsc"}
        THEN FormattedTree(tree) ELSE tree

\* C6: the tree a complete run leaves is a function of the schema, of the
\* options and of the outcome of the formatter: the order in which the blocks
\* of phase 2 report and the order in which the workers exit do not show in
\* the paths or in the contents.
C6_OutputTreeIsAFunctionOfTheInputs ==
    pc = "done" => disk = ExpectedTree(dmmf, baseOptions, formatResult = "ok")

\* a complete run in compiled mode with two transpile workers, in which the
\* inputs block reported after the resolvers block
C6_Witness ==
    /\ pc = "done"
    /\ Len(dmmf) = 2
    /\ genOptions.emitTranspiledCode
    /\ Cardinality(JsWorkers(workers)) = 2
    /\ \E i, j \in Indices(staged) :
          /\ i < j
          /\ staged[i].path = Path(BlockDirPath(genOptions.outputDirPath, "resolvers"),
                                   "index", "ts")
          /\ staged[j].path = Path(InputsDirPath(genOptions.outputDirPath),
                                   "index", "ts")

-----------------------------------------------------------------------------
(* Claims about the renderers, continued.                                  *)

\* the scalar kind a custom scalar binding stands for
ScalarKindOf(binding) == IF binding = "BytesScalar" THEN "Bytes" ELSE "Decimal"

HasFieldOfType(type, scalar) ==
    \E i \in Indices(type.fields) : type.fields[i].selectedInputType.type = scalar

HasOutputFieldOfType(type, scalar) ==
    \E i \in Indices(type.fields) : type.fields[i].outputType.type = scalar

\* C7 as stated: a text imports BytesScalar or DecimalJSScalar only if the type
\* has a field of the corresponding scalar kind.
C7_CustomScalarImportedOnlyIfUsed ==
    TextRendered =>
        \A binding \in {"BytesScalar", "DecimalJSScalar"} :
            ImportsOf(textFile, binding) # {}
                => HasFieldOfType(inputType, ScalarKindOf(binding))

\* the custom scalars call recorded in a source file
CustomScalarsCalls(file) ==
    {i \in Indices(file.imports) : file.imports[i].kind = "customScalarsImport"}

\* C7 as amended: a text imports BytesScalar exactly when a field has type Bytes
\* and imports DecimalJSScalar once whatever its fields are; the structure
\* renderers ask for the Bytes binding exactly when a field has type Bytes.
C7_BytesScalarIffBytesField ==
    /\ TextRendered =>
          /\ ImportsOf(textFile, "BytesScalar") # {}
                <=> HasFieldOfType(inputType, "Bytes")
          /\ Cardinality(ImportsOf(textFile, "DecimalJSScalar")) = 1
    /\ InputClassRendered =>
          /\ Cardinality(CustomScalarsCalls(inputClassFile)) = 1
          /\ \A i \in CustomScalarsCalls(inputClassFile) :
                inputClassFile.imports[i].flag <=> HasFieldOfType(inputType, "Bytes")
    /\ OutputClassRendered =>
          /\ Cardinality(CustomScalarsCalls(outputClassFile)) = 1
          /\ \A i \in CustomScalarsCalls(outputClassFile) :
                outputClassFile.imports[i].flag
                    <=> HasOutputFieldOfType(outputType, "Bytes")

\* the text of a type with a Bytes field and no Decimal field
C7_Witness ==
    /\ TextRendered
    /\ HasFieldOfType(inputType, "Bytes")
    /\ ~HasFieldOfType(inputType, "Decimal")

\* C8 as stated: an emitted input field gets a get/set pair under its exposed
\* name iff hasMappedName; a remapped field gets the pair instead of a plain
\* field, any other field a plain field and no accessor.
C8_AccessorPairInsteadOfPlainField ==
    /\ TextRendered =>
          \A i \in EmittedFields :
            LET field == inputType.fields[i]
                accessors == GetLinesOf(textFile, field.typeName)
                                \cup SetLinesOf(textFile, field.typeName)
            IN  /\ Cardinality(accessors) = (IF field.hasMappedName THEN 2 ELSE 0)
                /\ Cardinality(PropertyLinesOf(textFile, field.name))
                      = (IF field.hasMappedName THEN 0 ELSE 1)
    /\ InputClassRendered =>
          \A i \in EmittedFields :
            LET field == inputType.fields[i]
                class == inputClassFile.class
            IN  /\ Cardinality(GetAccessorsOf(class, field.typeName))
                      = (IF field.hasMappedName THEN 1 ELSE 0)
                /\ Cardinality(SetAccessorsOf(class, field.typeName))
                      = (IF field.hasMappedName THEN 1 ELSE 0)
                /\ Cardinality(PropertiesOf(class, field.name))
                      = (IF field.hasMappedName THEN 0 ELSE 1)

\* C8 as amended: an emitted input field gets a get/set pair under its exposed
\* name iff hasMappedName; a remapped field keeps an undecorated property under
\* its storage name, which the pair reads and writes, and the getter carries
\* the Field decorator; any other field is a decorated property and no accessor.
C8_AccessorPairIffMappedName ==
    /\ TextRendered =>
          \A i \in EmittedFields :
            LET field == inputType.fields[i]
                getters == GetLinesOf(textFile, field.typeName)
                setters == SetLinesOf(textFile, field.typeName)
                properties == PropertyLinesOf(textFile, field.name)
            IN  /\ Cardinality(getters) = (IF field.hasMappedName THEN 1 ELSE 0)
                /\ Cardinality(setters) = (IF field.hasMappedName THEN 1 ELSE 0)
                /\ Cardinality(properties) = 1
                /\ \A p \in properties :
                      IsDecorated(textFile, p) <=> ~field.hasMappedName
                /\ \A g \in getters :
                      /\ IsDecorated(textFile, g)
                      /\ textFile[g + 1] = ReturnLine(field.name)
                /\ \A t \in setters : textFile[t + 1] = AssignLine(field.name)
    /\ InputClassRendered =>
          \A i \in EmittedFields :
            LET field == inputType.fields[i]
                class == inputClassFile.class
                getters == GetAccessorsOf(class, field.typeName)
                setters == SetAccessorsOf(class, field.typeName)
                properties == PropertiesOf(class, field.name)
            IN  /\ Cardinality(getters) = (IF field.hasMappedName THEN 1 ELSE 0)
                /\ Cardinality(setters) = (IF field.hasMappedName THEN 1 ELSE 0)
                /\ Cardinality(properties) = 1
                /\ \A p \in properties :
                      Len(class.properties[p].decorators)
                          = (IF field.hasMappedName THEN 0 ELSE 1)
                /\ \A g \in getters :
                      /\ Len(class.getAccessors[g].decorators) = 1
                      /\ class.getAccessors[g].returns = field.name
                /\ \A t \in setters : class.setAccessors[t].assigns = field.name

\* both renderers ran on a type with an emitted remapped field and an emitted
\* field that is not remapped
C8_Witness ==
    /\ TextRendered
    /\ InputClassRendered
    /\ \E i, j \in EmittedFields :
          inputType.fields[i].hasMappedName /\ ~inputType.fields[j].hasMappedName

\* the Field decorators a class structure attaches to the members of a field:
\* to its property under the storage name and to its getter under the exposed
\* name
ClassFieldDecoratorsOf(class, field) ==
    UNION {{class.properties[p].decorators[d] :
              d \in Indices(class.properties[p].decorators)} :
           p \in PropertiesOf(class, field.name)}
      \cup UNION {{class.getAccessors[g].decorators[d] :
                     d \in Indices(class.getAccessors[g].decorators)} :
                  g \in GetAccessorsOf(class, field.typeName)}

\* the number of decorators on the members of a field
ClassFieldDecoratorCount(class, field) ==
    LET onProperty(p) == Len(class.properties[p].decorators)
        onGetter(g) == Len(class.getAccessors[g].decorators)
        properties == PropertiesOf(class, field.name)
        getters == GetAccessorsOf(class, field.typeName)
    IN  (IF properties = {} THEN 0 ELSE onProperty(CHOOSE p \in properties : TRUE))
            + (IF getters = {} THEN 0 ELSE onGetter(CHOOSE g \in getters : TRUE))

\* C9: the class of an input type carries exactly one Field declaration per
\* emitted field and none for an omitted field; its nullable value is the
\* negation of isRequired, and the property of the field is marked "!" when
\* isRequired holds and "?" otherwise.
C9_OneFieldDeclarationPerField ==
    /\ TextRendered =>
          /\ FieldDecoratorLines(textFile)
                = UNION {FieldDecoratorLinesOf(textFile, inputType.fields[i]) :
                           i \in EmittedFields}
          /\ \A i \in EmittedFields :
                LET field == inputType.fields[i]
                IN  /\ Cardinality(FieldDecoratorLinesOf(textFile, field)) = 1
                    /\ \A d \in FieldDecoratorLinesOf(textFile, field) :
                          textFile[d].flag = ~field.isRequired
                    /\ \A p \in PropertyLinesOf(textFile, field.name) :
                          textFile[p].flag = field.isRequired
          /\ \A i \in OmittedFields :
                FieldDecoratorLinesOf(textFile, inputType.fields[i]) = {}
    /\ InputClassRendered =>
          LET class == inputClassFile.class
          IN  /\ \A i \in EmittedFields :
                    LET field == inputType.fields[i]
                    IN  /\ Cardinality(PropertiesOf(class, field.name)) = 1
                        /\ Cardinality(GetAccessorsOf(class, field.typeName)) <= 1
                        /\ ClassFieldDecoratorCount(class, field) = 1
                        /\ \A d \in ClassFieldDecoratorsOf(class, field) :
                              /\ d.name = "TypeGraphQL.Field"
                              /\ d.nullable = ~field.isRequired
                        /\ \A p \in PropertiesOf(class, field.name) :
                              /\ class.properties[p].hasExclamationToken
                                    = field.isRequired
                              /\ class.properties[p].hasQuestionToken
                                    = ~field.isRequired
              /\ \A i \in OmittedFields :
                    ClassFieldDecoratorCount(class, inputType.fields[i]) = 0

\* both renderers ran on a type with a required field that is not remapped and
\* an optional remapped field
C9_Witness ==
    /\ TextRendered
    /\ InputClassRendered
    /\ \E i, j \in Indices(inputType.fields) :
          /\ i \in EmittedFields
          /\ inputType.fields[i].isRequired
          /\ ~inputType.fields[i].hasMappedName
          /\ ~inputType.fields[j].isRequired
          /\ inputType.fields[j].hasMappedName

FieldsWithArgs == {i \in Indices(outputType.fields) : HasArgs(outputType.fields[i])}
FieldsWithoutArgs == {i \in Indices(outputType.fields) : HasNoArgs(outputType.fields[i])}

\* the field with an argument type is one method that carries the Field
\* declaration under the name of the field, takes the argument type as args and
\* has that argument type imported
RenderedAsMethod(file, field) ==
    /\ Cardinality(MethodsOf(file.class, field.name)) = 1
    /\ \A m \in MethodsOf(file.class, field.name) :
          /\ Len(file.class.methods[m].decorators) = 1
          /\ file.class.methods[m].decorators[1]
                = FieldDecorator(field.typeGraphQLType, field.name, ~field.isRequired)
          /\ file.class.methods[m].argsType = field.argsTypeName
    /\ Cardinality(ImportsOf(file.imports, field.argsTypeName)) = 1

\* C10 as stated: an output field with an argument type is exactly one method
\* with the Field declaration and no declared plain field; a field without
\* argument type is exactly one declared plain field and no method.
C10_ArgsFieldIsMethodNotPlainField ==
    OutputClassRendered =>
        /\ \A i \in FieldsWithArgs :
              /\ RenderedAsMethod(outputClassFile, outputType.fields[i])
              /\ PropertiesOf(outputClassFile.class, outputType.fields[i].name) = {}
        /\ \A i \in FieldsWithoutArgs :
              /\ Cardinality(PropertiesOf(outputClassFile.class,
                                          outputType.fields[i].name)) = 1
              /\ MethodsOf(outputClassFile.class, outputType.fields[i].name) = {}

\* C10 as amended: an output field with an argument type is exactly one method
\* with the Field declaration, next to one property of the same name that
\* carries no Field declaration; a field without argument type is exactly one
\* property carrying the Field declaration and no method.
C10_ArgsFieldIsMethodAndBareProperty ==
    OutputClassRendered =>
        LET class == outputClassFile.class
        IN  /\ \A i \in FieldsWithArgs :
                  LET field == outputType.fields[i]
                  IN  /\ RenderedAsMethod(outputClassFile, field)
                      /\ Cardinality(PropertiesOf(class, field.name)) = 1
                      /\ \A p \in PropertiesOf(class, field.name) :
                            class.properties[p].decorators = <<>>
            /\ \A i \in FieldsWithoutArgs :
                  LET field == outputType.fields[i]
                  IN  /\ Cardinality(PropertiesOf(class, field.name)) = 1
                      /\ \A p \in PropertiesOf(class, field.name) :
                            class.properties[p].decorators
                                = <<FieldDecorator(field.typeGraphQLType, NONE,
                                                   ~field.isRequired)>>
                      /\ MethodsOf(class, field.name) = {}

\* the class of an output type with a field that has an argument type and a
\* field that has none
C10_Witness ==
    /\ OutputClassRendered
    /\ FieldsWithArgs # {}
    /\ FieldsWithoutArgs # {}

-----------------------------------------------------------------------------
(* The order of the members.                                               *)

\* the first name of the lines of a kind, in the order of the lines
NamesOfKind(text, kind) ==
    LET IsOfKind(line) == line.kind = kind
        FirstName(line) == line.names[1]
    IN  Map(Filter(text, IsOfKind), FirstName)

FieldName(field) == field.name
FieldExposedName(field) == field.typeName
MemberName(member) == member.name
MethodField(method) == method.returns

\* C11 as stated: the members that carry the declarations of the fields are in
\* the order of the fields: in the text of an input type the decorated member
\* of a field precedes the decorated member of every later field, and in the
\* class of an output type the property of a field precedes the property of
\* every later field.
C11_MembersInFieldOrder ==
    /\ TextRendered =>
          \A i, j \in EmittedFields :
            i < j =>
              \A di \in FieldDecoratorLinesOf(textFile, inputType.fields[i]),
                 dj \in FieldDecoratorLinesOf(textFile, inputType.fields[j]) : di < dj
    /\ OutputClassRendered =>
          \A i, j \in Indices(outputType.fields) :
            i < j =>
              \A p \in PropertiesOf(outputClassFile.class, outputType.fields[i].name),
                 q \in PropertiesOf(outputClassFile.class, outputType.fields[j].name) :
                    p < q

\* C11 as amended: each list of members is in the order of the fields it stems
\* from.  The properties of an input type follow the emitted fields and precede
\* every accessor; the accessor pairs follow the remapped emitted fields.  The
\* properties of an output type are those of the fields without argument type
\* in field order, then those of the fields with an argument type in field
\* order; its methods follow the fields with an argument type.
C11_MembersInFieldOrderPerKind ==
    /\ TextRendered =>
          LET fieldsToEmit == Filter(inputType.fields, NotOmitted)
              mappedFields == Filter(fieldsToEmit, HasMappedName)
          IN  /\ NamesOfKind(textFile, "property") = Map(fieldsToEmit, FieldName)
              /\ NamesOfKind(textFile, "get") = Map(mappedFields, FieldExposedName)
              /\ NamesOfKind(textFile, "set") = Map(mappedFields, FieldExposedName)
              /\ \A p, g \in Indices(textFile) :
                    textFile[p].kind = "property" /\ textFile[g].kind \in {"get", "set"}
                        => p < g
    /\ InputClassRendered =>
          LET fieldsToEmit == Filter(inputType.fields, NotOmitted)
              mappedFields == Filter(fieldsToEmit, HasMappedName)
              class == inputClassFile.class
          IN  /\ Map(class.properties, MemberName) = Map(fieldsToEmit, FieldName)
              /\ Map(class.getAccessors, MemberName)
                    = Map(mappedFields, FieldExposedName)
              /\ Map(class.setAccessors, MemberName)
                    = Map(mappedFields, FieldExposedName)
    /\ OutputClassRendered =>
          LET class == outputClassFile.class
          IN  /\ Map(class.properties, MemberName)
                    = Map(Filter(outputType.fields, HasNoArgs), FieldName)
                        \o Map(Filter(outputType.fields, HasArgs), FieldName)
              /\ Map(class.methods, MethodField)
                    = Map(Filter(outputType.fields, HasArgs), FieldName)

\* the class of an output type whose first field has an argument type and whose
\* second field has none
C11_Witness ==
    /\ OutputClassRendered
    /\ \E i, j \in Indices(outputType.fields) :
          /\ i < j
          /\ HasArgs(outputType.fields[i])
          /\ HasNoArgs(outputType.fields[j])

-----------------------------------------------------------------------------
(* The Document after a call.                                              *)

\* C12: no renderer changes the type it is handed: a step of
\* generateInputTypeText, of generateInputTypeClassFromType or of
\* generateOutputTypeClassFromType leaves the field lists of the types as they
\* were, the arrays the text renderer sorts are its own import lists, and
\* InputBlockGenerator.generate() leaves the input types of every schema as
\* they were.
C12_DocumentNotMutated ==
    /\ [][/\ inputType' = inputType
          /\ outputType' = outputType
          /\ textFile' # textFile =>
                /\ TextArrays(inputType)["inputTypeImports"]
                      = TextInputTypeImports(inputType)
                /\ TextArrays(inputType)["enumImports"] = TextEnumImports(inputType)]_vars
    /\ [](\A schema \in Schemas :
            InputTypesAfterGenerate(schema, options, Len(schema)) = schema)

\* the text of a type with an omitted field whose fields reference two input
\* types in decreasing order of name
C12_Witness ==
    /\ TextRendered
    /\ OmittedFields # {}
    /\ \E i, j \in Indices(inputType.fields) :
          /\ i < j
          /\ inputType.fields[i].selectedInputType.location = "inputObjectTypes"
          /\ inputType.fields[j].selectedInputType.location = "inputObjectTypes"
          /\ StrLess(inputType.fields[j].selectedInputType.type,
                     inputType.fields[i].selectedInputType.type)

-----------------------------------------------------------------------------
(* The emission modes.                                                     *)

\* the file is on disk with the content it was generated with, as written or
\* as the formatter left it
Persisted(tree, path, content) ==
    <<path, content>> \in tree \/ <<path, Formatted(content)>> \in tree

\* the paths of the tree with one of the extensions
PathsWithExt(tree, exts) == {entry[1] : entry \in {e \in tree : e[1].ext \in exts}}

SourceMode == ~genOptions.emitTranspiledCode
CompiledMode == genOptions.emitTranspiledCode

\* C13: a complete run in source mode has every staged source file on disk, no
\* .js and no .d.ts file, and has started no emission worker.
C13_SourceModePersistsSourcesOnly ==
    (pc = "done" /\ SourceMode) =>
        /\ \A i \in Indices(staged) : Persisted(disk, staged[i].path, staged[i].content)
        /\ PathsWithExt(disk, {"js", "d.ts"}) = {}
        /\ workers = <<>>

\* a complete run in source mode on a schema of two input types with every
\* block emitted
C13_Witness ==
    /\ pc = "done"
    /\ SourceMode
    /\ Len(dmmf) = 2
    /\ genOptions.blocksToEmit = BlockNames
    /\ Len(staged) > Cardinality(BlockNames)

\* the source files of the run: the files staged in the projects and the files
\* the block generators wrote themselves
GeneratedSourcePaths == Range(AllFilePaths(staged, directWrittenFilePaths))

-----------------------------------------------------------------------------
(* The batches, checked under EmitSpec.                                    *)

\* the batches handed to the transpile workers, in the order of the workers
BatchesOfWorkers ==
    [i \in 1..Cardinality(JsWorkers(workers)) |-> workers[i].filePaths]

\* C15: for every file count and every CPU count the batches are not empty,
\* pairwise disjoint, concatenate to the file list in order and are at most
\* min(max(1, cpus - 2), 8); an empty file list gives no batch and no
\* transpile worker.
C15_BatchesPartitionTheFileList ==
    pc = "workers" =>
        LET allFilePaths == AllFilePaths(staged, directWrittenFilePaths)
            batches == BatchesOfWorkers
            limit == IF cpus - 2 < 1 THEN 1 ELSE IF cpus - 2 > 8 THEN 8 ELSE cpus - 2
        IN  /\ Flatten(batches) = allFilePaths
            /\ \A i \in Indices(batches) : batches[i] # <<>>
            /\ \A i, j \in Indices(batches) :
                  i # j => Range(batches[i]) \cap Range(batches[j]) = {}
            /\ Len(batches) <= limit
            /\ allFilePaths = <<>> => JsWorkers(workers) = {}
            /\ JsWorkers(workers) = 1..Len(batches)

\* the workers started for nine or more files on a machine with more than ten
\* CPUs, the last batch shorter than the first
C15_Witness ==
    /\ pc = "workers"
    /\ cpus > 10
    /\ Len(staged) >= 9
    /\ Cardinality(JsWorkers(workers)) >= 2
    /\ Len(workers[Cardinality(JsWorkers(workers))].filePaths)
          < Len(workers[1].filePaths)

(***************************************************************************)
(* C16: the workers' outputs do not collide.                               *)
(***************************************************************************)

\* the set of paths worker w has written so far
WrittenBy(w) == Range(workers[w].written)

\* C16: in compiled mode, in every reachable state of every interleaving of
\* the workers, no path has been written by two different workers: each
\* transpile worker has written only .js paths, disjoint from those of every
\* other transpile worker, and the declaration worker only .d.ts paths.
C16_NoPathWrittenByTwoWorkers ==
    CompiledMode =>
        /\ \A v, w \in 1..Len(workers) :
              v # w => WrittenBy(v) \cap WrittenBy(w) = {}
        /\ \A w \in JsWorkers(workers) : \A p \in WrittenBy(w) : p.ext = "js"
        /\ \A w \in DtsWorkers(workers) : \A p \in WrittenBy(w) : p.ext = "d.ts"

\* two transpile workers and the declaration worker have all written files
C16_Witness ==
    /\ CompiledMode
    /\ Cardinality(JsWorkers(workers)) >= 2
    /\ \A w \in 1..Len(workers) : WrittenBy(w) # {}

(***************************************************************************)
(* C17: one failed worker fails the run.                                   *)
(***************************************************************************)

\* generate() went past fastEmitTranspiledCode without an exception
EmissionPassed == pc \in {"format", "complete", "done"}

\* some emission worker ended with an error event or a non-zero exit code
SomeWorkerFailed == \E w \in 1..Len(workers) : workers[w].status = "failed"

\* the formatter was started: its log line is the first statement of the try
FormatterInvoked ==
    \/ formatResult # "none"
    \/ \E i \in 1..Len(events) : events[i] = Log("Formatting generated code")

\* this.metrics.onComplete() was called
CompletionCallbackInvoked ==
    \E i \in 1..Len(events) : events[i] = Callback("onComplete")

\* C17: in compiled mode generate() gets past the emission, and so completes,
\* only when every transpile worker and the declaration worker exited with
\* code 0; once a worker has failed the run can only wait or be failed, and a
\* failed run has invoked neither the formatter nor the completion callback.
C17_RunSucceedsOnlyIfEveryWorkerDid ==
    CompiledMode =>
        /\ EmissionPassed =>
              \A w \in 1..Len(workers) : workers[w].status = "exited"
        /\ SomeWorkerFailed => pc \in {"workers", "failed"}
        /\ pc = "failed" => ~FormatterInvoked /\ ~CompletionCallbackInvoked

\* a single transpile worker failed, every other worker succeeded, and the
\* run was failed
C17_Witness ==
    /\ CompiledMode
    /\ pc = "failed"
    /\ Cardinality({w \in 1..Len(workers) : workers[w].status = "failed"}) = 1
    /\ Cardinality({w \in 1..Len(workers) : workers[w].status = "exited"}) >= 2
    /\ genOptions.formatGeneratedCode # NONE

(***************************************************************************)
(* C18: when the run is rejected after a worker failure.                   *)
(***************************************************************************)

\* C18: when a transpile batch or the declaration synthesis has failed,
\* generate() can reject at once: the rejection does not wait for the other
\* emission workers that are still running.
C18_FailureRejectsWithoutWaiting ==
    (pc = "workers" /\ SomeWorkerFailed) => ENABLED EmissionSettles

(***************************************************************************)
(* C19: what the error of a failed emission tells.                         *)
(***************************************************************************)

\* the transpile batches whose failure can raise the error
BatchesRaising(err) ==
    {w \in JsWorkers(workers) :
        \E count \in 0..(Len(workers[w].filePaths) - 1) :
            \E reason \in FailureReasons(workers[w], count) :
                EmissionError("JS", reason) = err}

\* C19: the error generate() rejects with after an emission worker failed
\* names the stage of that worker, and for the transpile stage it is the error
\* of exactly one batch, so it tells which batch failed.
C19_ErrorIdentifiesStageAndBatch ==
    (pc = "failed" /\ error.message = "emission failed") =>
        /\ error.stage = "JS" <=> JsPromise(workers) = "rejected"
        /\ error.stage = "JS" => Cardinality(BatchesRaising(error)) = 1

(***************************************************************************)
(* C20: a failing formatter does not fail the run.                         *)
(***************************************************************************)

\* the number of events equal to event
CountOf(event) == Cardinality({i \in 1..Len(events) : events[i] = event})

\* the last events of a complete run
CompletionEvents ==
    <<Metric("code-emission"), Metric("total-generation"), Callback("onComplete")>>

WorkersStarted == workers # <<>>

\* a step that starts no worker and restarts none
WorkersKeepTheirBatch ==
    /\ Len(workers') = Len(workers)
    /\ \A w \in 1..Len(workers) :
          /\ workers'[w].kind = workers[w].kind
          /\ workers'[w].filePaths = workers[w].filePaths
          /\ (workers[w].status # "running" => workers'[w] = workers[w])

\* a step that does not start the formatter
FormatterNotInvokedAgain ==
    /\ formatResult' = formatResult
    /\ CountOf(Log("Formatting generated code"))' =
           CountOf(Log("Formatting generated code"))

\* C21: within one run the emission workers are created in one step and
\* never again, no two of them are given the same batch, there is one
\* declaration worker at most, a worker that has ended stays ended, and the
\* formatter is invoked at most once, also after it failed.
C21_NoOperationRetried ==
    /\ [][(WorkersStarted => WorkersKeepTheirBatch)
            /\ (formatResult # "none" => FormatterNotInvokedAgain)]_vars
    /\ [](/\ CountOf(Log("Formatting generated code")) <= 1
          /\ Cardinality(DtsWorkers(workers)) <= 1
          /\ \A v, w \in JsWorkers(workers) :
                v # w => workers[v].filePaths # workers[w].filePaths)

\* a complete run in compiled mode in which the formatter failed
C21_Witness ==
    /\ pc = "done"
    /\ CompiledMode
    /\ Cardinality(JsWorkers(workers)) >= 2
    /\ formatResult = "failed"

(***************************************************************************)
(* C24: the inputs block outside the allow-list.                           *)
(***************************************************************************)

\* the options of the run are resolved
OptionsResolved == pc \notin {"idle", "start", "cli", "config", "dump"}

\* the path lies in the inputs directory of the run
InInputsDir(path) == path.dir = InputsDirPath(genOptions.outputDirPath)

\* C24: when the allow-list of blocks does not hold "inputs", the inputs
\* generator reports itemsGenerated = 0 and no written path, and at every
\* point of the run the inputs directory was not made, no file lies in it on
\* disk, no staged file lies in it and no worker is handed a file of it.
C24_InputsBlockOffLeavesNoTrace ==
    (OptionsResolved /\ ~shouldGenerateBlock(genOptions, "inputs")) =>
        /\ InputBlockMetrics(dmmf, genOptions).itemsGenerated = 0
        /\ InputBlockMetrics(dmmf, genOptions).directWrittenFilePaths = <<>>
        /\ InputsDirPath(genOptions.outputDirPath) \notin dirs
        /\ \A entry \in disk : ~InInputsDir(entry[1])
        /\ \A i \in 1..Len(staged) : ~InInputsDir(staged[i].path)
        /\ directWrittenFilePaths = <<>>
        /\ \A w \in 1..Len(workers) :
              \A i \in 1..Len(workers[w].filePaths) :
                 ~InInputsDir(workers[w].filePaths[i])

\* a complete compiled run on a schema with two input types whose allow-list
\* is enums and models
C24_Witness ==
    /\ pc = "done"
    /\ CompiledMode
    /\ Len(dmmf) = 2
    /\ genOptions.blocksToEmit = {"enums", "models"}
    /\ blocks["inputs"] = "reported"
    /\ disk # {}

(***************************************************************************)
(* C25: the re-export file of the inputs block.                            *)
(***************************************************************************)

\* InputBlockGenerator.generate() has returned its metrics
InputsGenerated ==
    /\ OptionsResolved
    /\ shouldGenerateBlock(genOptions, "inputs")
    /\ blocks["inputs"] = "reported"

\* the names handed to generateInputsBarrelFile, read from the staged file
BarrelNames ==
    LET barrel == CHOOSE i \in 1..Len(staged) :
                     /\ InInputsDir(staged[i].path)
                     /\ staged[i].path.base = "index"
    IN  staged[barrel].content[1].names

\* the files of input types on disk: the .ts files of the inputs directory
\* other than its index
InputFilesOnDisk ==
    LET inputsDir == InputsDirPath(genOptions.outputDirPath)
    IN  {entry[1] : entry \in {e \in disk : /\ e[1].ext = "ts"
                                            /\ e[1].base # "index"
                                            /\ e[1].dir = inputsDir}}

\* C25: once the inputs generator has returned, the names handed to the
\* re-export file are the names of the input types whose file was written,
\* each once and no other, and itemsGenerated is the number of those files
\* and the number of reported paths.
C25_BarrelListsExactlyTheWrittenTypes ==
    InputsGenerated =>
        LET names == BarrelNames
            itemsGenerated == InputBlockMetrics(dmmf, genOptions).itemsGenerated
            onDisk == InputFilesOnDisk
        IN  /\ Cardinality(Range(names)) = Len(names)
            /\ Range(names) = {path.base : path \in onDisk}
            /\ Range(names) = {path.base : path \in Range(directWrittenFilePaths)}
            /\ itemsGenerated = Cardinality(onDisk)
            /\ itemsGenerated = Len(directWrittenFilePaths)

\* the inputs generator has returned on a schema with two input types, before
\* anything else was written
C25_Witness ==
    /\ InputsGenerated
    /\ pc = "blocks"
    /\ Len(BarrelNames) = 2
    /\ Cardinality(InputFilesOnDisk) = 2

(***************************************************************************)
(* C26: a failing write of the inputs block.                               *)
(***************************************************************************)

\* generate() was left by the error of a failed write
WriteFailed == pc = "failed" /\ error = [message |-> "IOError"]

\* the entries of the tree that lie in the inputs directory
InputsTree == {entry \in disk : InInputsDir(entry[1])}

\* C26: when the write of an input type's file fails, generate() is left by
\* that error and nothing follows: the files of the input types before the
\* failing one are on disk and no file of a later one is, no re-export file of
\* the inputs is staged, the block is not reported, no worker was started,
\* nothing was saved and the formatter was not invoked.
C26_FailedWriteAbortsTheRun ==
    WriteFailed =>
        /\ \E failing \in 1..Len(dmmf) :
              InputsTree = WriteFiles({}, InputTypeFiles(dmmf, genOptions, failing - 1))
        /\ \A i \in 1..Len(staged) : ~InInputsDir(staged[i].path)
        /\ \A i \in 1..Len(staged) : ~Exists(disk, staged[i].path)
        /\ blocks["inputs"] = "pending"
        /\ workers = <<>>
        /\ ~FormatterInvoked
        /\ ~CompletionCallbackInvoked
        /\ ~ENABLED Next

\* the write of the second input type failed after the file of the first one
\* was written
C26_Witness ==
    /\ WriteFailed
    /\ Len(dmmf) = 2
    /\ Cardinality(InputsTree) = 1

(***************************************************************************)
(* C28: the order of the stages of a run.                                  *)
(***************************************************************************)

\* the engine passed the message to its log callback
HasLogged(message) == CountOf(Log(message)) > 0

\* some block generator has run
SomeBlockStarted ==
    \/ \E name \in BlockNames : blocks[name] = "reported"
    \/ staged # <<>>
    \/ disk # {}

\* every block generator has returned
AllBlocksDone == \A name \in BlockNames : blocks[name] = "reported"

\* the auxiliary files are staged
AuxiliaryStaged ==
    Range(AuxiliaryFiles(genOptions.outputDirPath)) \subseteq Range(staged)

\* some auxiliary file is staged
SomeAuxiliaryStaged ==
    Range(AuxiliaryFiles(genOptions.outputDirPath)) \cap Range(staged) # {}

\* the emission has begun: its first message is logged, a staged file is
\* saved or a worker exists
EmissionStarted ==
    \/ HasLogged("Emitting final code")
    \/ \E i \in 1..Len(staged) : Exists(disk, staged[i].path)
    \/ workers # <<>>

\* the emission has ended: every staged file is saved and, in compiled mode,
\* every worker exited with code 0
EmissionFinished ==
    /\ \A i \in 1..Len(staged) : Exists(disk, staged[i].path)
    /\ CompiledMode =>
          /\ workers # <<>>
          /\ \A w \in 1..Len(workers) : workers[w].status = "exited"

\* every event a comes before every event b
EventsOrdered(a, b) ==
    \A j \in 1..Len(events) :
        events[j] = b => \A i \in j..Len(events) : events[i] # a

\* C28: a block generator runs only after the Document is built, the
\* auxiliary files are staged only after every block generator returned, the
\* emission begins only after all staging, the formatter is invoked only after
\* the emission ended, and the completion callback fires only after the
\* formatter step ended.
C28_StagesAreOrdered ==
    pc # "idle" =>
        /\ SomeBlockStarted => HasLogged("Transforming dmmfDocument...")
        /\ SomeAuxiliaryStaged => AllBlocksDone
        /\ EmissionStarted => (AllBlocksDone /\ AuxiliaryStaged)
        /\ FormatterInvoked => EmissionFinished
        /\ CompletionCallbackInvoked =>
              /\ EmissionFinished
              /\ genOptions.formatGeneratedCode # NONE => formatResult # "none"
        /\ EventsOrdered(Log("Transforming dmmfDocument..."),
                         Log("Generate auxiliary files"))
        /\ EventsOrdered(Log("Generate auxiliary files"), Log("Emitting final code"))
        /\ EventsOrdered(Log("Emitting final code"), Log("Formatting generated code"))
        /\ EventsOrdered(Log("Formatting generated code"), Callback("onComplete"))

\* a complete compiled run through every stage, the formatter included
C28_Witness ==
    /\ pc = "done"
    /\ CompiledMode
    /\ Len(dmmf) = 2
    /\ shouldGenerateBlock(genOptions, "inputs")
    /\ formatResult = "ok"
    /\ CompletionCallbackInvoked

(***************************************************************************)
(* C30: the formatting mode.                                               *)
(***************************************************************************)

\* the tools the formatter step has run
ToolsRun ==
    [i \in 1..Cardinality({j \in 1..Len(events) : events[j].sink = "exec"}) |->
        LET k == CHOOSE k \in 1..Len(events) :
                    /\ events[k].sink = "exec"
                    /\ Cardinality({j \in 1..k : events[j].sink = "exec"}) = i
        IN  events[k].name]

\* the formatter step is over or was skipped
FormatterStepPassed == pc \in {"complete", "done"}

\* C30: the formatting mode of a run is resolved when the options are and
\* does not change afterwards: none for false and for an unset option, "tsc"
\* for true, and "tsc", "prettier" and "biome" for themselves; the formatter
\* step runs exactly when the mode is defined, and it runs the one tool of that
\* mode, once.
C30_FormatModeResolvedOnce ==
    /\ [][OptionsResolved => genOptions' = genOptions]_vars
    /\ [](OptionsResolved =>
            /\ baseOptions.formatGeneratedCode \in {NONE, "false"}
                  => genOptions.formatGeneratedCode = NONE
            /\ baseOptions.formatGeneratedCode = "true"
                  => genOptions.formatGeneratedCode = "tsc"
            /\ baseOptions.formatGeneratedCode \in {"tsc", "prettier", "biome"}
                  => genOptions.formatGeneratedCode = baseOptions.formatGeneratedCode
            /\ FormatterStepPassed =>
                  (FormatterInvoked <=> genOptions.formatGeneratedCode # NONE)
            /\ ToolsRun = IF FormatterInvoked
                          THEN <<genOptions.formatGeneratedCode>> ELSE <<>>)

\* a complete run with formatGeneratedCode = true, which ran tsc
C30_Witness ==
    /\ pc = "done"
    /\ baseOptions.formatGeneratedCode = "true"
    /\ ToolsRun = <<"tsc">>

-----------------------------------------------------------------------------
(* Claims about a run of the cli, checked under CliSpec.                   *)

(***************************************************************************)
(* C22: the output directory is cleared at the start.                      *)
(***************************************************************************)

\* the entries of the tree below the output directory of the cli
OutputTree == {entry \in disk : entry[1].dir \in DirsBelow(config.output)}

\* the entry is a file an earlier run left
IsStale(entry) == entry[2][1].kind = "stale"

\* the step takes a file away
RemovesAFile == \E entry \in disk : ~Exists(disk', entry[1])

\* the files a complete run of the cli writes
ExpectedCliTree ==
    ExpectedTree(dmmf, ParseConfig(config), formatResult = "ok")
    \cup (IF parseStringBoolean(config.emitDMMF) = "true"
          THEN {<<file.path, file.content>> :
                  file \in Range(DmmfFiles(config.output, dmmf))}
          ELSE {})

\* C22: only the first step of a run of the cli, before anything is written,
\* takes files away, and it leaves nothing below the output directory; so the
\* output tree holds files of this run only, and after a successful run it
\* is exactly the set of files the run wrote.
C22_OutputDirectoryClearedAtStartOnly ==
    /\ [][RemovesAFile => pc = "cli"]_vars
    /\ [](/\ pc # "cli" => \A entry \in OutputTree : ~IsStale(entry)
          /\ pc = "config" => OutputTree = {}
          /\ pc = "returned" => OutputTree = ExpectedCliTree)

\* a successful run of the cli on a disk that held the output of an earlier
\* run, with the DMMF files written
C22_Witness ==
    /\ pc = "returned"
    /\ \E entry \in disk : IsStale(entry)
    /\ parseStringBoolean(config.emitDMMF) = "true"
    /\ Cardinality(OutputTree) > 2

(***************************************************************************)
(* C23: an invalid configuration.                                          *)
(***************************************************************************)

\* the cli was left by the error of its configuration
ConfigFailed == pc = "failed" /\ error = [message |-> "ConfigError"]

\* generateCode was called: the engine logs its first message at once
GenerateCodeInvoked == pc = "start" \/ events # <<>> \/ genOptions # NoOptions

\* C23: a configuration that a parse helper rejects (or that names no client
\* generator) never gets past the parsing: generateCode is not invoked, and
\* once the output directory is cleared no file is written below it, the DMMF
\* files included; the run ends with the configuration error.
C23_InvalidConfigStopsBeforeGeneration ==
    /\ (config.provider = NONE \/ ConfigInvalid(config)) =>
          /\ pc \in {"idle", "cli", "config", "failed"}
          /\ ~GenerateCodeInvoked
          /\ pc # "cli" => OutputTree = {}
          /\ staged = <<>>
          /\ pc = "failed" => ConfigFailed
    /\ ConfigFailed =>
          /\ config.provider = NONE \/ ConfigInvalid(config)
          /\ ~ENABLED CliNext

\* the cli was left by the error of formatGeneratedCode = biome, with the
\* DMMF files asked for
C23_Witness ==
    /\ ConfigFailed
    /\ config.provider # NONE
    /\ config.formatGeneratedCode = "biome"
    /\ parseStringBoolean(config.emitDMMF) = "true"

(***************************************************************************)
(* C27: the log callback and verboseLogging.                               *)
(***************************************************************************)

\* the messages the engine passed to its log callback, in order
EngineMessages ==
    LET IsLog(event) == event.sink = "log"
        logs == Filter(events, IsLog)
    IN  [i \in 1..Len(logs) |-> logs[i].name]

\* the messages of the engine that were printed, in order
EnginePrinted ==
    LET FromEngine(entry) == entry.origin = "engine"
        printed == Filter(console, FromEngine)
    IN  [i \in 1..Len(printed) |-> printed[i].message]

\* the configuration with verboseLogging left out
Quiet(cfg) == [cfg EXCEPT !.verboseLogging = NONE]

-----------------------------------------------------------------------------
(* The sequential emission stage (unnamed/part_001 298-379), next to the   *)
(* parallel one (unnamed/part_002 321-426).                                *)

\* unnamed/part_001 325
JS_BATCH_SIZE == 200

\* unnamed/part_001 314-323 (jsCompilerOptions) and 352-365
\* (dtsCompilerOptions), as flag/value pairs
SequentialCompilerOptions(kind) ==
    LET common == {<<"target", "ES2021">>, <<"module", "CommonJS">>,
                   <<"experimentalDecorators", "true">>,
                   <<"emitDecoratorMetadata", "true">>,
                   <<"esModuleInterop", "true">>, <<"importHelpers", "true">>}
    IN  IF kind = "js"
        THEN common \cup {<<"declaration", "false">>, <<"sourceMap", "false">>}
        ELSE common \cup {<<"skipLibCheck", "true">>, <<"declaration", "true">>,
                          <<"emitDeclarationOnly", "true">>, <<"noCheck", "true">>}

\* unnamed/part_002 338-349 (compilerOptions), 359-362 (jsCompilerOptions) and
\* 65 (the options of the declaration worker)
ParallelCompilerOptions(kind) ==
    LET compilerOptions ==
            {<<"target", "ES2021">>, <<"module", "CommonJS">>,
             <<"experimentalDecorators", "true">>,
             <<"emitDecoratorMetadata", "true">>,
             <<"esModuleInterop", "true">>, <<"importHelpers", "true">>,
             <<"skipLibCheck", "true">>, <<"declaration", "true">>,
             <<"sourceMap", "false">>, <<"noCheck", "true">>}
        Assign(flags, flag, value) ==
            {pair \in flags : pair[1] # flag} \cup {<<flag, value>>}
    IN  IF kind = "js"
        THEN Assign(compilerOptions, "declaration", "false")
        ELSE Assign(compilerOptions, "emitDeclarationOnly", "true")

\* SequentialJsFile writing the transpiled text over the source file
SequentialJsFileOverSource(file) ==
    [path |-> file.path, content |-> Transpile(file.content)]

\* unnamed/part_001 328-338: the .js file of a source file, transpiled from the
\* text the project holds
SequentialJsFile(file) ==
    [path |-> JsPath(file.path), content |-> Transpile(file.content)]

\* unnamed/part_001 367-369: the declaration file the program emits for a
\* source file it reads from the disk
SequentialDtsFile(tree, file) ==
    [path |-> DtsPath(file.path),
     content |-> Declaration(ReadFile(tree, file.path))]

\* unnamed/part_001 326-327
SequentialBatches(sourceFiles) == BatchesFrom(sourceFiles, 0, JS_BATCH_SIZE)

\* unnamed/part_001 305-312: the projects are saved
SequentialSave ==
    /\ pc = "sequential"
    /\ disk' = WriteFiles(disk, staged)
    /\ pc' = "transpile"
    /\ UNCHANGED <<baseOptions, dmmf, cpus, genOptions, blocks, staged,
                   directWrittenFilePaths, workers, formatResult, error>>
    /\ events' = events \o <<Metric("save-ts-files"),
                              Log("Transpiling .ts -> .js")>>
    /\ console' = EngineLog(console, config, <<"Transpiling .ts -> .js">>)
    /\ UNCHANGED config
    /\ UNCHANGED dirs
    /\ UNCHANGED renderVars

\* unnamed/part_001 325-353: every batch is transpiled and written
SequentialTranspile ==
    /\ pc = "transpile"
    /\ disk' = WriteFiles(disk, Map(staged, SequentialJsFile))
    /\ pc' = "declarations"
    /\ UNCHANGED <<baseOptions, dmmf, cpus, genOptions, blocks, staged,
                   directWrittenFilePaths, workers, formatResult, error>>
    /\ events' = events \o <<Metric("transpile-js"),
                              Log("Generating .d.ts declarations")>>
    /\ console' = EngineLog(console, config, <<"Generating .d.ts declarations">>)
    /\ UNCHANGED config
    /\ UNCHANGED dirs
    /\ UNCHANGED renderVars

\* unnamed/part_001 339-341: a writeFile of batch b rejects; the batches before
\* it are written, and of the writes of batch b, which are in flight together,
\* any may have ended
SequentialTranspileFails ==
    /\ pc = "transpile"
    /\ \E b \in 1..Len(SequentialBatches(staged)) :
          LET batch == SequentialBatches(staged)[b]
              before == SubSeq(staged, 1, (b - 1) * JS_BATCH_SIZE)
          IN  \E failing \in 1..Len(batch) :
              \E ended \in SUBSET ((1..Len(batch)) \ {failing}) :
                  LET Ended(file) == \E i \in ended : batch[i] = file
                  IN  /\ Cardinality(ended) <= MaxPartialWrites
                      /\ disk' = WriteFiles(disk,
                                    Map(before \o Filter(batch, Ended),
                                        SequentialJsFile))
    /\ pc' = "failed"
    /\ error' = [message |-> "IOError"]
    /\ UNCHANGED <<baseOptions, dmmf, cpus, genOptions, blocks, staged,
                   directWrittenFilePaths, workers, formatResult>>
    /\ UNCHANGED events
    /\ UNCHANGED dirs
    /\ UNCHANGED cliVars
    /\ UNCHANGED renderVars

\* unnamed/part_001 355-378: the declaration program emits every file
SequentialDeclarations ==
    /\ pc = "declarations"
    /\ LET DtsFile(file) == SequentialDtsFile(disk, file)
       IN  disk' = WriteFiles(disk, Map(staged, DtsFile))
    /\ pc' = "format"
    /\ UNCHANGED <<baseOptions, dmmf, cpus, genOptions, blocks, staged,
                   directWrittenFilePaths, workers, formatResult, error>>
    /\ events' = Append(events, Metric("generate-dts"))
    /\ UNCHANGED dirs
    /\ UNCHANGED cliVars
    /\ UNCHANGED renderVars

\* unnamed/part_001 367-369: the compiler throws while it handles a file
SequentialDeclarationsFail ==
    /\ pc = "declarations"
    /\ \E count \in 0..Min(MaxPartialWrites, Len(staged) - 1) :
          LET DtsFile(file) == SequentialDtsFile(disk, file)
          IN  /\ disk' = WriteFiles(disk, Map(SubSeq(staged, 1, count), DtsFile))
              /\ error' = ThrownError(staged[count + 1].path)
    /\ pc' = "failed"
    /\ UNCHANGED <<baseOptions, dmmf, cpus, genOptions, blocks, staged,
                   directWrittenFilePaths, workers, formatResult>>
    /\ UNCHANGED events
    /\ UNCHANGED dirs
    /\ UNCHANGED cliVars
    /\ UNCHANGED renderVars

\* a call of either fastEmitTranspiledCode on projects that hold up to
\* MaxEmitFiles source files, on a machine with any number of CPUs
EmissionInit ==
    /\ RenderIdle
    /\ pc \in {"emit", "sequential"}
    /\ baseOptions = [(CHOOSE b \in BaseOptionsSet : TRUE)
                        EXCEPT !.emitTranspiledCode = "true"]
    /\ genOptions = ResolveOptions(baseOptions)
    /\ dmmf = <<>>
    /\ cpus \in 0..MaxCpus
    /\ blocks = [name \in BlockNames |-> "reported"]
    /\ \E n \in 0..MaxEmitFiles :
          staged = [i \in 1..n |-> SourceFile(genOptions.outputDirPath, ToString(i))]
    /\ directWrittenFilePaths = <<>>
    /\ disk = {}
    /\ workers = <<>>
    /\ formatResult = "none"
    /\ events = <<>>
    /\ dirs = {}
    /\ config = NoConfig
    /\ console = <<>>
    /\ error = [message |-> NONE]

EmissionNext ==
    \/ SequentialSave
    \/ SequentialTranspile
    \/ SequentialTranspileFails
    \/ SequentialDeclarations
    \/ SequentialDeclarationsFail
    \/ SaveAndStartWorkers
    \/ \E w \in 1..Len(workers) : WorkerExits(w)
    \/ \E w \in 1..Len(workers) : WorkerFails(w)
    \/ EmissionSettles

\* the two emission stages, each followed to its end from the same call
EmissionSpec == EmissionInit /\ [][EmissionNext]_vars

(***************************************************************************)
(* C29: the sequential and the parallel emission stage, under EmissionSpec. *)
(***************************************************************************)

\* the stage returned or threw
EmissionEnded == pc \in {"format", "failed"}

\* the stage that ran is the sequential one: it starts no worker
RanSequential == workers = <<>> /\ pc \notin {"emit", "sequential"}

EmissionResult == IF pc = "failed" THEN "failure" ELSE "success"

\* the .ts, the .js and the .d.ts of every file
EmittedArtifacts(files) ==
    {<<files[i].path, files[i].content>> : i \in 1..Len(files)}
    \cup {<<JsPath(files[i].path), Transpile(files[i].content)>> :
            i \in 1..Len(files)}
    \cup {<<DtsPath(files[i].path), Declaration(files[i].content)>> :
            i \in 1..Len(files)}

\* the results the parallel stage can end with on these files: those of
\* Promise.allSettled over every way its workers can end, where a worker can
\* fail on a file only
ParallelResults(files, cpuCount) ==
    LET ws == StartWorkers(Map(files, PathOf), cpuCount)
        ends == {e \in [1..Len(ws) -> {"exited", "failed"}] :
                    \A w \in 1..Len(ws) :
                        e[w] = "failed" => ws[w].filePaths # <<>>}
        After(e) == [w \in 1..Len(ws) |-> [ws[w] EXCEPT !.status = e[w]]]
    IN  {IF JsPromise(After(e)) = "rejected" \/ DtsPromise(After(e)) = "rejected"
         THEN "failure" ELSE "success" : e \in ends}

\* the options that change what the compiler emits: the flags that only
\* switch checks off left out, sourceMap at its default where it is not given
EmitOptions(flags) ==
    {pair \in flags : pair[1] \notin {"skipLibCheck", "noCheck"}}
    \cup (IF \E pair \in flags : pair[1] = "sourceMap" THEN {}
          ELSE {<<"sourceMap", "false">>})

\* C29: the sequential and the parallel emission stage give the compiler the
\* same emit options; whichever ran on a file set, a success left exactly the
\* .ts, the .js and the .d.ts of every file; the result either ends with is a
\* result the parallel stage can end with on that file set, and the
\* sequential stage can fail exactly when the parallel stage can.
C29_SequentialAndParallelEmissionAgree ==
    /\ \A kind \in {"js", "dts"} :
          EmitOptions(SequentialCompilerOptions(kind))
              = EmitOptions(ParallelCompilerOptions(kind))
    /\ EmissionEnded /\ EmissionResult = "success" =>
          disk = EmittedArtifacts(staged)
    /\ EmissionEnded => EmissionResult \in ParallelResults(staged, cpus)
    /\ pc = "transpile" =>
          (ENABLED SequentialTranspileFails
              <=> "failure" \in ParallelResults(staged, cpus))
    /\ pc = "declarations" =>
          (ENABLED SequentialDeclarationsFail
              <=> "failure" \in ParallelResults(staged, cpus))

\* the sequential stage succeeded on a file set the parallel stage splits
\* over more than one transpile worker
C29_Witness ==
    /\ RanSequential
    /\ pc = "format"
    /\ Len(staged) >= 2
    /\ Len(JsBatches(Map(staged, PathOf), cpus)) >= 2
    /\ disk = EmittedArtifacts(staged)

-----------------------------------------------------------------------------
(***************************************************************************)
(* C31: the emission mode, under Spec.                                     *)
(***************************************************************************)

\* unnamed/part_002 38-46 (baseCompilerOptions) and 118-126: the compiler
\* options of a staging project, as flag/value pairs
ProjectCompilerOptions(emitTranspiledCode) ==
    {<<"target", "ES2021">>, <<"module", "CommonJS">>,
     <<"emitDecoratorMetadata", "true">>, <<"experimentalDecorators", "true">>,
     <<"esModuleInterop", "true">>, <<"skipLibCheck", "true">>}
    \cup (IF emitTranspiledCode
          THEN {<<"declaration", "true">>, <<"importHelpers", "true">>}
          ELSE {})

\* unnamed/part_002 123-126: both projects are built from the one object
StagingProjects(opts) ==
    [project |-> ProjectCompilerOptions(opts.emitTranspiledCode),
     inputProject |-> ProjectCompilerOptions(opts.emitTranspiledCode)]

\* the mode the configuration asks for
CompiledModeConfigured ==
    \/ baseOptions.emitTranspiledCode = "true"
    \/ /\ baseOptions.emitTranspiledCode = NONE
       /\ IncludesNodeModules(baseOptions.outputDirPath)

\* the emission step has been taken
EmissionStepTaken == pc \in {"workers", "format", "complete", "done"}

\* C31: from the start of a run on, the mode is the one resolved from the
\* configuration: compiled if and only if emitTranspiledCode is true, or unset
\* with an output path that contains node_modules, and source mode for an
\* explicit false; the emission step taken is that of the mode, and both
\* staging projects have declaration and importHelpers set exactly in
\* compiled mode.
C31_EmissionModeResolvedFromConfiguration ==
    OptionsResolved =>
        /\ CompiledMode <=> CompiledModeConfigured
        /\ baseOptions.emitTranspiledCode = "false" => ~CompiledMode
        /\ genOptions = ResolveOptions(baseOptions)
        /\ EmissionStepTaken => (workers # <<>> <=> CompiledMode)
        /\ workers # <<>> => CompiledMode
        /\ \A name \in {"project", "inputProject"} :
              /\ <<"declaration", "true">> \in StagingProjects(genOptions)[name]
                    <=> CompiledMode
              /\ <<"importHelpers", "true">> \in StagingProjects(genOptions)[name]
                    <=> CompiledMode

\* a complete run in source mode whose output path contains node_modules and
\* whose emitTranspiledCode is an explicit false
C31_Witness ==
    /\ pc = "done"
    /\ baseOptions.emitTranspiledCode = "false"
    /\ IncludesNodeModules(baseOptions.outputDirPath)
    /\ workers = <<>>
    /\ ~CompiledMode

(***************************************************************************)
(* C32: the module the client is imported from, under Spec.                *)
(***************************************************************************)

\* a custom import path is configured: the test of unnamed/part_002 105,
\* which takes the empty string for no path
CustomPathConfigured == baseOptions.customPrismaImportPath \notin {NONE, ""}

\* the files of input types on disk, with their text
InputTypeTextsOnDisk ==
    LET inputsDir == InputsDirPath(genOptions.outputDirPath)
    IN  {e \in disk : /\ e[1].ext = "ts"
                      /\ e[1].base # "index"
                      /\ e[1].dir = inputsDir}

\* the modules a text imports Prisma from
PrismaModules(content) ==
    {content[i].text : i \in {j \in 1..Len(content) :
                                 /\ content[j].kind = "import"
                                 /\ content[j].names = <<"Prisma">>}}

\* C32: every input type file on disk imports Prisma from exactly one module;
\* with a custom import path configured it is that path below the output root
\* (../../ from resolvers/inputs), also when the client lies under
\* node_modules; it is "@prisma/client" exactly when no custom path is
\* configured and the client path contains node_modules.
C32_CustomImportPathOverridesClient ==
    OptionsResolved =>
        \A entry \in InputTypeTextsOnDisk :
            /\ Cardinality(PrismaModules(entry[2])) = 1
            /\ CustomPathConfigured =>
                  PrismaModules(entry[2])
                      = {"../../" \o baseOptions.customPrismaImportPath}
            /\ "@prisma/client" \in PrismaModules(entry[2])
                  <=> /\ ~CustomPathConfigured
                      /\ IncludesNodeModules(baseOptions.prismaClientPath)

\* a complete run with a custom import path and the client under
\* node_modules, whose two input type files are on disk
C32_Witness ==
    /\ pc = "done"
    /\ CustomPathConfigured
    /\ IncludesNodeModules(baseOptions.prismaClientPath)
    /\ Cardinality(InputTypeTextsOnDisk) = 2

(***************************************************************************)
(* C33: the sources are on disk before a worker exists, under Spec.        *)
(***************************************************************************)

\* the source text of every file handed to the emission: that of the staged
\* files and that of the files the inputs generator wrote itself
HandedSources ==
    {<<staged[i].path, staged[i].content>> : i \in 1..Len(staged)}
    \cup (IF shouldGenerateBlock(genOptions, "inputs")
          THEN {<<file.path, file.content>> :
                  file \in Range(InputTypeFiles(dmmf, genOptions, Len(dmmf)))}
          ELSE {})

\* C33: as soon as a worker exists, every file handed to any worker is a file
\* of the staging projects or a file a block generator wrote, and is on disk
\* with its whole text; it stays so while workers run.
C33_SourcesSavedBeforeWorkersStart ==
    workers # <<>> =>
        LET handed == HandedSources
            paths == {source[1] : source \in handed}
            onDisk == {entry[1] : entry \in disk}
        IN  /\ CompiledMode
            /\ \A w \in 1..Len(workers) :
                  Range(workers[w].filePaths) \subseteq (paths \cap onDisk)
            /\ pc = "workers" => handed \subseteq disk
            /\ paths = Range(workers[Len(workers)].filePaths)

\* the workers have just been started, none has ended, and files of both
\* kinds, staged and written by the inputs generator, were handed to them
C33_Witness ==
    /\ pc = "workers"
    /\ Len(workers) >= 3
    /\ \A w \in 1..Len(workers) : workers[w].status = "running"
    /\ directWrittenFilePaths # <<>>
    /\ HandedSources \subseteq disk

-----------------------------------------------------------------------------
(* The events of a worker that throws (unnamed/part_002 383-388 and        *)
(* 402-407): the error event and the exit event that follows it.           *)

\* worker.on("error", reject): the worker throws after it handled some of its
\* files; its exit event is still to come
WorkerErrors(w) ==
    /\ pc = "workers"
    /\ w \in 1..Len(workers)
    /\ workers[w].status = "running"
    /\ \E count \in 0..Min(MaxPartialWrites, Len(workers[w].filePaths) - 1) :
          /\ disk' = WorkerWrites(disk, workers[w], count)
          /\ workers' = [workers EXCEPT
                ![w].status = "errored",
                ![w].written = WorkerWritten(disk, workers[w], count),
                ![w].reason = ThrownError(workers[w].filePaths[count + 1]),
                ![w].rejects = \A v \in 1..Len(workers) :
                    workers[v].kind = workers[w].kind
                        => workers[v].status \notin {"failed", "errored"}]
    /\ UNCHANGED <<pc, baseOptions, dmmf, cpus, genOptions, blocks, staged,
                   directWrittenFilePaths, formatResult, error>>
    /\ UNCHANGED events
    /\ UNCHANGED dirs
    /\ UNCHANGED cliVars
    /\ UNCHANGED renderVars

\* worker.on("exit", ...) of a worker that threw: the code is not 0 and the
\* second reject of the settled promise changes nothing
WorkerExitsAfterError(w) ==
    /\ pc = "workers"
    /\ w \in 1..Len(workers)
    /\ workers[w].status = "errored"
    /\ workers' = [workers EXCEPT ![w].status = "failed"]
    /\ UNCHANGED <<pc, baseOptions, dmmf, cpus, genOptions, blocks, staged,
                   directWrittenFilePaths, disk, formatResult, error>>
    /\ UNCHANGED events
    /\ UNCHANGED dirs
    /\ UNCHANGED cliVars
    /\ UNCHANGED renderVars

\* a worker ends or fires one of its events
WorkerStep ==
    \E w \in 1..Len(workers) :
        \/ WorkerExits(w)
        \/ WorkerFails(w)
        \/ WorkerErrors(w)
        \/ WorkerExitsAfterError(w)

\* a call of the parallel fastEmitTranspiledCode on projects that hold up to
\* MaxEmitFiles source files, with one transpile worker or with two
EmissionLiveInit ==
    /\ RenderIdle
    /\ pc = "emit"
    /\ baseOptions = [(CHOOSE b \in BaseOptionsSet : TRUE)
                        EXCEPT !.emitTranspiledCode = "true"]
    /\ genOptions = ResolveOptions(baseOptions)
    /\ dmmf = <<>>
    /\ cpus \in CpuCounts
    /\ blocks = [name \in BlockNames |-> "reported"]
    /\ \E n \in 0..MaxEmitFiles :
          staged = [i \in 1..n |-> SourceFile(genOptions.outputDirPath, ToString(i))]
    /\ directWrittenFilePaths = <<>>
    /\ disk = {}
    /\ workers = <<>>
    /\ formatResult = "none"
    /\ events = <<>>
    /\ dirs = {}
    /\ config = NoConfig
    /\ console = <<>>
    /\ error = [message |-> NONE]

EmissionLiveNext ==
    \/ SaveAndStartWorkers
    \/ \E w \in 1..Len(workers) : WorkerExits(w)
    \/ \E w \in 1..Len(workers) : WorkerFails(w)
    \/ \E w \in 1..Len(workers) : WorkerErrors(w)
    \/ \E w \in 1..Len(workers) : WorkerExitsAfterError(w)
    \/ EmissionSettles

\* the status of every worker; every step of a worker changes it
WorkerStatuses == [w \in 1..Len(workers) |-> workers[w].status]

\* the parallel emission stage with every started worker ending in the end
\* and the continuation of Promise.allSettled run once both promises are
\* settled
EmissionLiveSpec ==
    /\ EmissionLiveInit
    /\ [][EmissionLiveNext]_vars
    /\ WF_WorkerStatuses(WorkerStep)
    /\ WF_pc(EmissionSettles)

(***************************************************************************)
(* C34: the emission settles, under EmissionLiveSpec.                      *)
(***************************************************************************)

\* every started worker has ended: it exited or fired its error event
AllWorkersEnded ==
    /\ workers # <<>>
    /\ \A w \in 1..Len(workers) : workers[w].status # "running"

\* the emission has settled, once
EmissionSettledOnce ==
    /\ pc \in {"format", "failed"}
    /\ CountOf(Metric("emit-js-dts")) = 1

\* C34: once the workers are started the emission settles, with a success or
\* with a failure, whichever way each worker ends, a worker that fires its
\* error event and then its exit event included; it settles at most once,
\* and it can settle as soon as every worker has ended.
C34_EmissionSettlesOnce ==
    /\ [](CountOf(Metric("emit-js-dts")) <= 1)
    /\ []((pc = "workers" /\ AllWorkersEnded) => ENABLED EmissionSettles)
    /\ (pc = "workers") ~> EmissionSettledOnce

\* the emission settled with a failure after a worker fired its error event
\* and then its exit event, while another worker exited with code 0
C34_Witness ==
    /\ EmissionSettledOnce
    /\ pc = "failed"
    /\ \E w \in 1..Len(workers) :
          /\ workers[w].status = "failed"
          /\ workers[w].reason = ThrownError(workers[w].filePaths[1])
    /\ \E w \in 1..Len(workers) : workers[w].status = "exited"

(***************************************************************************)
(* C35: the completion callback, under Spec.                               *)
(***************************************************************************)

\* the errors a run fails with in normalization, block generation, saving and
\* emission
FailureMessages ==
    {"SchemaResolutionError", "IOError", "emission failed"}

\* C35: with a metrics listener that has onComplete, the callback is invoked
\* once at the end of every run that completes, as the event that follows
\* the total-generation metric, and not before; it is not invoked on a run
\* that failed in normalization, in a block generator, in the save or in the
\* emission, and such a run takes no further step.
C35_CompletionCallbackOnceOnSuccess ==
    /\ CountOf(Callback("onComplete")) = (IF pc = "done" THEN 1 ELSE 0)
    /\ pc = "done" =>
          /\ events[Len(events)] = Callback("onComplete")
          /\ events[Len(events) - 1] = Metric("total-generation")
          /\ CountOf(Metric("total-generation")) = 1
    /\ pc = "complete" => ENABLED Complete
    /\ pc = "failed" =>
          /\ error.message \in FailureMessages
          /\ CountOf(Metric("total-generation")) = 0
          /\ ~ENABLED Next

\* a complete compiled run whose callback was invoked, after workers ran
C35_Witness ==
    /\ pc = "done"
    /\ workers # <<>>
    /\ CountOf(Callback("onComplete")) = 1
    /\ events[Len(events) - 1] = Metric("total-generation")

\* the lines of a text, each with the line before it
WithPrevious(text) ==
    [i \in 1..Len(text) |->
        [line |-> text[i], prev |-> IF i > 1 THEN text[i - 1] ELSE BlankLine]]

\* the lines of a text, each with the lines from it on
WithFollowing(text) ==
    [i \in 1..Len(text) |-> [line |-> text[i], rest |-> SubSeq(text, i, Len(text))]]

\* the properties a text declares, in order: name, type, the ! or ? marker
\* and the Field decorator on the line above, if there is one
TextProperties(text) ==
    LET IsProperty(e) == e.line.kind = "property"
        Describe(e) ==
            [name |-> e.line.names[1],
             type |-> e.line.text,
             required |-> e.line.flag,
             decorators |->
                IF e.prev.kind = "Field"
                THEN <<[typeGraphQLType |-> e.prev.text, nullable |-> e.prev.flag]>>
                ELSE <<>>]
    IN  Map(Filter(WithPrevious(text), IsProperty), Describe)

\* the properties a class structure declares, in order
ClassProperties(class) ==
    LET Decorator(d) == [typeGraphQLType |-> d.typeGraphQLType, nullable |-> d.nullable]
        Describe(p) ==
            [name |-> p.name,
             type |-> p.type,
             required |-> p.hasExclamationToken /\ ~p.hasQuestionToken,
             decorators |-> Map(p.decorators, Decorator)]
    IN  Map(class.properties, Describe)

\* the accessor pairs a text declares, in order: the getter with the Field
\* decorator above it and the property it returns, and the setter that
\* follows it with its parameter and the property it assigns
TextAccessors(text) ==
    LET IsGet(e) == e.line.kind = "get"
        IsSet(l) == l.kind = "set"
        Describe(e) ==
            LET i == Len(text) - Len(e.rest) + 1
                setters == Filter(e.rest, IsSet)
            IN  [name |-> e.line.names[1],
                 nullable |-> IF i > 1 /\ text[i - 1].kind = "Field"
                              THEN text[i - 1].flag ELSE NONE,
                 typeGraphQLType |-> IF i > 1 /\ text[i - 1].kind = "Field"
                                     THEN text[i - 1].text ELSE NONE,
                 returns |-> e.rest[2].names[1],
                 setter |-> IF setters = <<>> THEN NONE ELSE setters[1].names[1],
                 parameter |-> IF setters = <<>> THEN NONE ELSE setters[1].names[2],
                 parameterType |-> IF setters = <<>> THEN NONE ELSE setters[1].text]
    IN  Map(Filter(WithFollowing(text), IsGet), Describe)

\* the accessor pairs a class structure declares, in order
ClassAccessors(class) ==
    [i \in 1..Len(class.getAccessors) |->
        LET get == class.getAccessors[i]
            set == IF i <= Len(class.setAccessors)
                   THEN class.setAccessors[i]
                   ELSE [name |-> NONE, parameter |-> NONE, type |-> NONE]
        IN  [name |-> get.name,
             nullable |-> IF get.decorators = <<>> THEN NONE
                          ELSE get.decorators[1].nullable,
             typeGraphQLType |-> IF get.decorators = <<>> THEN NONE
                                 ELSE get.decorators[1].typeGraphQLType,
             returns |-> get.returns,
             setter |-> set.name,
             parameter |-> set.parameter,
             parameterType |-> set.type]]

\* the names imported by the import lines whose module is the file of the
\* name in the given directory, the given number of levels up
ImportedFrom(lines, elementsDirName, level) ==
    {l.names[1] : l \in
        {m \in Range(lines) :
            /\ m.kind = "import"
            /\ Len(m.names) = 1
            /\ m.text = ElementModuleSpecifier(elementsDirName, m.names[1], level)}}

\* both renderers have been applied to the input type
RenderedBothWays == textFile # NoText /\ inputClassFile # NoFile

\* C36: once generateInputTypeText and generateInputTypeClassFromType have
\* both rendered an input type under the same options, they describe the
\* same class: the same properties in the same order with the same ! or ?
\* marker and the same Field decorator or none, the same accessor pairs in
\* the same order with the same nullable flags, as many setters as getters,
\* and the same sets of imported input-type names and enum names, the
\* type's own name being in neither.
C36_TextAndStructureDescribeSameClass ==
    RenderedBothWays =>
        /\ TextProperties(textFile) = ClassProperties(inputClassFile.class)
        /\ TextAccessors(textFile) = ClassAccessors(inputClassFile.class)
        /\ Len(inputClassFile.class.setAccessors)
              = Len(inputClassFile.class.getAccessors)
        /\ ImportedFrom(textFile, "inputs", 1)
              = ImportedFrom(inputClassFile.imports, "inputs", 1)
        /\ ImportedFrom(textFile, "enums", 2)
              = ImportedFrom(inputClassFile.imports, "enums", 2)
        /\ inputType.typeName \notin ImportedFrom(textFile, "inputs", 1)

\* a type rendered both ways that has a decorated property, a mapped-name
\* property with its accessor pair, an optional property, a field of its own
\* type and an imported input type
C36_Witness ==
    /\ RenderedBothWays
    /\ TextAccessors(textFile) # <<>>
    /\ \E i \in 1..Len(inputClassFile.class.properties) :
          inputClassFile.class.properties[i].decorators # <<>>
    /\ \E i \in 1..Len(inputClassFile.class.properties) :
          inputClassFile.class.properties[i].hasQuestionToken
    /\ \E i \in 1..Len(inputType.fields) :
          /\ IsInputObjectField(inputType.fields[i])
          /\ InputFieldTypeName(inputType.fields[i]) = inputType.typeName
    /\ ImportedFrom(textFile, "inputs", 1) # {}

\* the run was rejected by the emission
EmissionFailed == pc = "failed" /\ error.message = "emission failed"

\* the workers of the indices that did not exit with code 0
FailedAmong(indices) == {i \in indices : workers[i].status = "failed"}

\* C37: a run that the emission rejected in which a transpile worker failed
\* was rejected with the transpile-stage error, whose reason is the reason of
\* the transpile worker that rejected first, whether or not the declaration
\* worker failed too; a run rejected with the declaration-stage error is one
\* in which every transpile worker exited with code 0 and the declaration
\* worker failed, and its reason is that worker's.
C37_TranspileFailureTakesPrecedence ==
    EmissionFailed =>
        /\ error.stage \in {"JS", "DTS"}
        /\ FailedAmong(JsWorkers(workers)) # {} =>
              /\ error.stage = "JS"
              /\ \E i \in FailedAmong(JsWorkers(workers)) :
                    /\ workers[i].rejects
                    /\ error = EmissionError("JS", workers[i].reason)
        /\ error.stage = "DTS" =>
              /\ \A i \in JsWorkers(workers) : workers[i].status = "exited"
              /\ \E i \in FailedAmong(DtsWorkers(workers)) :
                    error = EmissionError("DTS", workers[i].reason)
        /\ error.stage = "JS" => FailedAmong(JsWorkers(workers)) # {}

\* a run rejected with the transpile-stage error in which the declaration
\* worker failed too, with a reason that is not the reported one
C37_Witness ==
    /\ EmissionFailed
    /\ FailedAmong(JsWorkers(workers)) # {}
    /\ FailedAmong(DtsWorkers(workers)) # {}
    /\ error.stage = "JS"
    /\ \A i \in DtsWorkers(workers) : workers[i].reason # error.reason

\* the output directory exists and nothing is in it or below it
OutputDirectoryEmpty == config.output \in dirs /\ OutputTree = {}

\* the files of the disk that are not below the output directory
OutsideOutput == disk \ OutputTree

\* C38: the output directory exists and is empty when the cli comes to look
\* up the client generator and to parse the options, and so after every run
\* of the cli that failed for a missing client generator or for an option a
\* parse helper rejects, whether or not the disk held files of an earlier run
\* below the directory; the files outside the directory are left alone, and
\* every run with such a configuration ends in that failure.
C38_OutputDirectoryEmptyAfterConfigFailure ==
    /\ pc = "config" => OutputDirectoryEmpty
    /\ ConfigFailed =>
          /\ config.provider = NONE \/ ConfigInvalid(config)
          /\ OutputDirectoryEmpty
          /\ \/ OutsideOutput = {}
             \/ OutsideOutput = {StaleFile("/app/generated/client", "index", "js")}
    /\ (pc = "config" /\ (config.provider = NONE \/ ConfigInvalid(config)))
          => ENABLED CliConfigFails

\* a run that failed for an option that is not allowed, with the client
\* generator present, on a disk that held the output of an earlier run
C38_Witness ==
    /\ ConfigFailed
    /\ config.provider # NONE
    /\ ConfigInvalid(config)
    /\ OutsideOutput # {}
    /\ OutputDirectoryEmpty

====
